---- MODULE Spec2Model ----
(***************************************************************************)
(* Hatch-line generation of hatchplot3d (src/src/lib/three-utils.ts).      *)
(*                                                                         *)
(* generateHatchLines is modelled as a state machine that steps through    *)
(* the lights of one call and, per light, through its master hatch lines.  *)
(* Numbers are exact rationals: a scalar is <<n, d>> with d > 0 in lowest  *)
(* terms, a vector or point is <<x, y, z, w>> standing for (x/w, y/w, z/w) *)
(* with w > 0 in lowest terms.  Light directions are axis-aligned (or the  *)
(* zero vector) and hatch angles are multiples of 90 degrees, so that      *)
(* normalize() and applyAxisAngle() stay rational.  Tests on irrational    *)
(* quantities (the unit normal, angles) are decided on their squares.      *)
(***************************************************************************)
EXTENDS Integers, Sequences, FiniteSets, TLC

-----------------------------------------------------------------------------
(* Rational scalars *)

Abs(a) == IF a < 0 THEN -a ELSE a

Sign(a) == IF a < 0 THEN -1 ELSE IF a > 0 THEN 1 ELSE 0

RECURSIVE GCD(_, _)
GCD(a, b) == IF b = 0 THEN a ELSE GCD(b, a % b)

Rat(n, d) ==
  LET g == GCD(Abs(n), Abs(d))
      s == IF d < 0 THEN -1 ELSE 1
  IN  <<(s * n) \div g, (s * d) \div g>>

RInt(n) == <<n, 1>>

RAdd(a, b) ==
  LET g == GCD(a[2], b[2])
  IN  Rat(a[1] * (b[2] \div g) + b[1] * (a[2] \div g), (a[2] \div g) * b[2])

RNeg(a) == <<-a[1], a[2]>>

RSub(a, b) == RAdd(a, RNeg(b))

RMul(a, b) ==
  LET g1 == GCD(Abs(a[1]), b[2])
      g2 == GCD(Abs(b[1]), a[2])
  IN  Rat((a[1] \div g1) * (b[1] \div g2), (a[2] \div g2) * (b[2] \div g1))

RDiv(a, b) == RMul(a, IF b[1] < 0 THEN <<-b[2], -b[1]>> ELSE <<b[2], b[1]>>)

RSq(a) == RMul(a, a)

\* a/b < c/d for b, d > 0, by comparing continued-fraction expansions: no
\* product is formed, so the comparison is exact for numbers of any size.
RECURSIVE FracLess(_, _, _, _)
FracLess(a, b, c, d) ==
  LET qa == a \div b
      qc == c \div d
      ra == a % b
      rc == c % d
  IN  IF qa # qc THEN qa < qc
      ELSE IF rc = 0 THEN FALSE
      ELSE IF ra = 0 THEN TRUE
      ELSE FracLess(d, rc, b, ra)

RLt(a, b) == FracLess(a[1], a[2], b[1], b[2])

RLe(a, b) == ~RLt(b, a)

RMin(a, b) == IF RLt(b, a) THEN b ELSE a

RMax(a, b) == IF RLt(a, b) THEN b ELSE a

\* Math.floor
RFloor(a) == a[1] \div a[2]

Max(a, b) == IF a > b THEN a ELSE b

-----------------------------------------------------------------------------
(* Vectors <<x, y, z, w>> = (x/w, y/w, z/w) *)

Vec(x, y, z, w) ==
  LET g == GCD(GCD(Abs(x), Abs(y)), GCD(Abs(z), Abs(w)))
      s == IF w < 0 THEN -1 ELSE 1
  IN  <<(s * x) \div g, (s * y) \div g, (s * z) \div g, (s * w) \div g>>

V3(x, y, z) == <<x, y, z, 1>>

Zero3 == V3(0, 0, 0)

VAdd(p, q) ==
  LET g == GCD(p[4], q[4])
      a == q[4] \div g
      b == p[4] \div g
  IN  Vec(p[1] * a + q[1] * b, p[2] * a + q[2] * b, p[3] * a + q[3] * b, p[4] * a)

VNeg(p) == <<-p[1], -p[2], -p[3], p[4]>>

VSub(p, q) == VAdd(p, VNeg(q))

\* multiplyScalar
VScale(p, r) == Vec(p[1] * r[1], p[2] * r[1], p[3] * r[1], p[4] * r[2])

\* addScaledVector
VAddScaled(p, q, r) == VAdd(p, VScale(q, r))

VDot(p, q) == Rat(p[1] * q[1] + p[2] * q[2] + p[3] * q[3], p[4] * q[4])

VCross(p, q) ==
  Vec(p[2] * q[3] - p[3] * q[2], p[3] * q[1] - p[1] * q[3],
      p[1] * q[2] - p[2] * q[1], p[4] * q[4])

VLengthSq(p) == VDot(p, p)

\* distanceToSquared(p, q) < 1/k^2.  A squared distance below 1/k^2 has every
\* coordinate difference below 1/k; that is tested first, and the sum of
\* squares S over w^2 is then compared as S/w < w/k^2, so that no large
\* square is formed.
DistSqBelow(p, q, k) ==
  LET v == VSub(p, q)
      S == v[1] * v[1] + v[2] * v[2] + v[3] * v[3]
  IN  /\ \A c \in 1..3 : FracLess(Abs(v[c]), v[4], 1, k)
      /\ FracLess(S, v[4], v[4], k * k)

\* distanceToSquared(p, q) > 1/K for K >= 10000: a coordinate difference of
\* 1/100 or more already gives a squared distance of 1/10000 or more.
DistSqAbove(p, q, K) ==
  LET v == VSub(p, q)
  IN  \/ \E c \in 1..3 : ~FracLess(Abs(v[c]), v[4], 1, 100)
      \/ FracLess(v[4], K, v[1] * v[1] + v[2] * v[2] + v[3] * v[3], v[4])

\* normalize(): divideScalar(length() || 1).  Exact for the zero vector and
\* for multiples of one coordinate axis, which is all the model normalizes.
IsAxisAligned(p) ==
  Cardinality({c \in 1..3 : p[c] # 0}) <= 1

Normalize(p) == V3(Sign(p[1]), Sign(p[2]), Sign(p[3]))

-----------------------------------------------------------------------------
(* Values the tests compare that may be irrational are kept as a sign and a  *)
(* rational square: <<sg, q>> stands for sg * sqrt(q).                       *)

\* sg * sqrt(q) < t for a rational t > 0
RootLess(r, t) == r[1] <= 0 \/ RLt(r[2], RSq(t))

\* sg1 * sqrt(q1) < sg2 * sqrt(q2)
RootLessRoot(r1, r2) ==
  IF r2[1] > 0 THEN r1[1] <= 0 \/ RLt(r1[2], r2[2])
  ELSE IF r2[1] = 0 THEN r1[1] < 0
  ELSE r1[1] < 0 /\ RLt(r2[2], r1[2])

-----------------------------------------------------------------------------
(* three.js primitives, as the generator uses them *)

\* Vector3.projectOnVector: the zero vector when n has length 0
ProjectOnVector(v, n) ==
  IF VLengthSq(n)[1] = 0 THEN Zero3 ELSE VScale(n, RDiv(VDot(v, n), VLengthSq(n)))

\* Vector3.projectOnPlane
ProjectOnPlane(v, n) == VSub(v, ProjectOnVector(v, n))

CosDeg(a) == IF a % 360 = 0 THEN 1 ELSE IF a % 360 = 180 THEN -1 ELSE 0

SinDeg(a) == IF a % 360 = 90 THEN 1 ELSE IF a % 360 = 270 THEN -1 ELSE 0

\* Vector3.applyAxisAngle(axis, degToRad(deg)) for a unit axis and deg a
\* multiple of 90 (Rodrigues' formula).  A zero axis gives a quaternion with
\* no vector part, which leaves the direction of v unchanged.
ApplyAxisAngle(v, axis, deg) ==
  IF VLengthSq(axis)[1] = 0 THEN v
  ELSE VAdd(VAdd(VScale(v, RInt(CosDeg(deg))),
                 VScale(VCross(axis, v), RInt(SinDeg(deg)))),
            VScale(axis, RMul(VDot(axis, v), RInt(1 - CosDeg(deg)))))

\* Plane.setFromNormalAndCoplanarPoint: normal . x + constant = 0
PlaneFromNormalAndPoint(normal, point) ==
  [normal |-> normal, constant |-> RNeg(VDot(point, normal))]

\* Plane.distanceToPoint (up to the length of the normal)
DistanceToPoint(plane, p) == RAdd(VDot(plane.normal, p), plane.constant)

\* Plane.projectPoint for a unit (or zero) normal
ProjectPoint(plane, p) ==
  VAddScaled(p, plane.normal, RNeg(DistanceToPoint(plane, p)))

\* intersectLine without the test of t against [0, 1]: the plane against the
\* unbounded line through a and b
IntersectLineUnbounded(plane, a, b) ==
  LET direction == VSub(b, a)
      denominator == VDot(plane.normal, direction)
      t == RDiv(RNeg(DistanceToPoint(plane, a)), denominator)
  IN  IF denominator[1] = 0
        THEN IF DistanceToPoint(plane, a)[1] = 0 THEN <<a>> ELSE <<>>
      ELSE <<VAddScaled(a, direction, t)>>

\* Plane.intersectLine(new Line3(a, b)): the intersection of the plane with
\* the bounded edge a..b as a sequence of zero or one point.  An edge lying
\* in the plane yields its start; t outside [0, 1] yields nothing.
IntersectLine(plane, a, b) ==
  LET direction == VSub(b, a)
      denominator == VDot(plane.normal, direction)
      t == RDiv(RNeg(DistanceToPoint(plane, a)), denominator)
  IN  IF denominator[1] = 0
        THEN IF DistanceToPoint(plane, a)[1] = 0 THEN <<a>> ELSE <<>>
      ELSE IF RLt(t, RInt(0)) \/ RLt(RInt(1), t) THEN <<>>
      ELSE <<VAddScaled(a, direction, t)>>

\* Triangle.getNormal(a, b, c) . d for a unit d, as a sign and a square; the
\* normal of a triangle of no area is the zero vector.
NormalDot(a, b, c, d) ==
  LET cr == VCross(VSub(c, b), VSub(a, b))
      l2 == VLengthSq(cr)
      cd == VDot(cr, d)
  IN  IF l2[1] = 0 THEN <<0, RInt(0)>> ELSE <<Sign(cd[1]), RDiv(RSq(cd), l2)>>

\* Triangle.getMidpoint
Midpoint(a, b, c) == VScale(VAdd(VAdd(a, b), c), <<1, 3>>)

\* cos(v.angleTo(d)) as a sign and a square; angleTo is PI/2 when either
\* vector has length 0.  The common denominators of v and of d cancel.
CosAngleTo(v, d) ==
  LET vd == v[1] * d[1] + v[2] * d[2] + v[3] * d[3]
      vv == v[1] * v[1] + v[2] * v[2] + v[3] * v[3]
      dd == d[1] * d[1] + d[2] * d[2] + d[3] * d[3]
  IN  IF vv = 0 \/ dd = 0 THEN <<0, RInt(0)>>
      ELSE <<Sign(vd), Rat(vd * vd, vv * dd)>>

RECURSIVE Concat(_)
Concat(seqs) == IF seqs = <<>> THEN <<>> ELSE Head(seqs) \o Concat(Tail(seqs))

-----------------------------------------------------------------------------
(* Scene data.  A mesh has the userData.isHelper flag, its position (the     *)
(* translation updateMatrixWorld composes into matrixWorld), its current     *)
(* matrixWorld (a translation), the position attribute of its geometry and   *)
(* the geometry's index (<<>>: a non-indexed geometry; indices count from 1).*)
(* Every geometry holds whole triangles.                                     *)

Mesh(isHelper, position, matrixWorld, vertices, index) ==
  [isHelper |-> isHelper, position |-> position, matrixWorld |-> matrixWorld,
   vertices |-> vertices, index |-> index]

\* The spec's quad, facing +z, as an indexed geometry of two triangles
MeshQuad ==
  Mesh(FALSE, Zero3, Zero3,
       <<V3(-1, -1, 0), V3(1, -1, 0), V3(1, 1, 0), V3(-1, 1, 0)>>,
       <<1, 2, 3, 1, 3, 4>>)

\* A quad in the plane z = 2y: its unit normal makes 1/sqrt(5) = 0.447 with +z
MeshTilted ==
  Mesh(FALSE, Zero3, Zero3,
       <<V3(-1, -1, -2), V3(1, -1, -2), V3(1, 1, 2),
         V3(-1, -1, -2), V3(1, 1, 2), V3(-1, 1, 2)>>, <<>>)

\* Three triangles that a light shining along -z does not light: one almost
\* edge-on (normal . d = -1/sqrt(40001) = -0.005, placed off the axis of the
\* spotlights), one facing away, one edge-on
MeshUnlit ==
  Mesh(FALSE, Zero3, Zero3,
       <<V3(4, 0, 0), <<801, 0, 200, 200>>, V3(4, 1, 0),
         V3(1, 1, 0), V3(1, -1, 0), V3(-1, -1, 0),
         V3(0, 0, 0), V3(0, 1, 0), V3(0, 0, 1)>>, <<>>)

\* A helper (grid-like) quad, larger than the scene and facing +z
MeshHelper ==
  Mesh(TRUE, Zero3, Zero3,
       <<V3(-3, -3, 0), V3(3, -3, 0), V3(3, 3, 0), V3(-3, 3, 0)>>,
       <<1, 2, 3, 1, 3, 4>>)

\* A triangle moved to y + 2 whose matrixWorld has not been updated yet
MeshMoved ==
  Mesh(FALSE, V3(0, 2, 0), Zero3,
       <<V3(-1, -1, 0), V3(1, -1, 0), V3(1, 1, 0)>>, <<>>)

\* A triangle facing +z whose extent along y is 1/2000 (placed off the axis
\* of the spotlights)
MeshSliver ==
  Mesh(FALSE, Zero3, Zero3,
       <<V3(4, 0, 0), V3(5, 0, 0), <<10000, 1, 0, 2000>>>>, <<>>)

\* Two thin triangles facing +z (placed off the axis of the spotlights).
\* The first spans 1/2 along x and 1/100 along y: its edge cross product
\* has squared length 0.000025.  The second is 1/500 wide where the plane
\* x = 4.25 cuts it.
MeshThin ==
  Mesh(FALSE, Zero3, Zero3,
       << <<800, -1, 0, 200>>, <<900, -1, 0, 200>>, <<900, 1, 0, 200>>,
          <<4200, 1, 0, 1000>>, <<4300, 1, 0, 1000>>, <<4300, 5, 0, 1000>> >>, <<>>)

\* A triangle in the plane 3y = 2(2 - z), the cutting plane of master line 5
\* of the 45-degree spotlight at (0, 0, 2): all its edges lie in that plane
MeshInCuttingPlane ==
  Mesh(FALSE, Zero3, Zero3,
       << <<-3, 8, 0, 6>>, <<3, 8, 0, 6>>, V3(0, 2, -1) >>, <<>>)

\* A triangle facing +z at z = 1.0005, centred on the axis of the
\* spotlights, 0.9995 in front of them
MeshNear ==
  Mesh(FALSE, Zero3, Zero3,
       << <<-1000, -1000, 2001, 2000>>, <<1000, -1000, 2001, 2000>>,
          <<0, 2000, 2001, 2000>> >>, <<>>)

\* A triangle facing +z that reaches into the cone of the spotlights at
\* (1, -1, 0) while its centroid (11/3, -1/3, 0) is outside
MeshAcrossCone ==
  Mesh(FALSE, Zero3, Zero3,
       <<V3(1, -1, 0), V3(5, -1, 0), V3(5, 1, 0)>>, <<>>)

Scenes ==
  { <<>>, <<MeshQuad>>, <<MeshUnlit>>, <<MeshHelper>>, <<MeshSliver>>,
    <<MeshMoved>>, <<MeshThin>>, <<MeshInCuttingPlane>>, <<MeshNear>>,
    <<MeshAcrossCone>>,
    <<MeshQuad, MeshHelper>>, <<MeshHelper, MeshTilted>> }

Light(type, position, target, intensity, hatchAngle, spotAngle) ==
  [type |-> type, position |-> position, target |-> target,
   intensity |-> intensity, hatchAngle |-> hatchAngle, spotAngle |-> spotAngle]

\* The lights a call's list is drawn from, in the order they keep in the
\* list; spotAngle 0 stands for an unset spotAngle
LightCatalog ==
  << Light("point", V3(0, 0, 5), Zero3, <<1, 2>>, 0, 0),
     Light("directional", V3(0, 0, 5), Zero3, <<1, 2>>, 0, 0),
     Light("directional", V3(0, 0, 5), V3(0, 0, 5), <<1, 2>>, 0, 0),
     Light("spotlight", V3(0, 0, 2), Zero3, <<1, 20>>, 0, 45),
     Light("directional", V3(0, 0, 5), Zero3, <<1, 25>>, 90, 0),
     Light("spotlight", V3(0, 0, 2), V3(0, 0, 2), <<1, 2>>, 0, 45),
     Light("spotlight", V3(0, 0, 2), Zero3, <<3, 10>>, 90, 0),
     Light("ambient", V3(0, 0, 5), Zero3, <<1, 2>>, 0, 0),
     Light("directional", V3(5, 0, 0), Zero3, <<1, 10>>, 0, 0) >>

\* The most lights one call is given
MaxLights == 2

\* The elements of the sequence q at the positions in S, in q's order
RECURSIVE SubSeqAt(_, _)
SubSeqAt(q, S) ==
  IF S = {} THEN <<>>
  ELSE LET m == CHOOSE x \in S : \A y \in S : x <= y
       IN  <<q[m]>> \o SubSeqAt(q, S \ {m})

LightLists ==
  { SubSeqAt(LightCatalog, S) :
      S \in {T \in SUBSET (1..Len(LightCatalog)) : Cardinality(T) <= MaxLights} }

-----------------------------------------------------------------------------
(* Geometry access *)

\* vertex.clone().applyMatrix4(matrixWorld) for a matrixWorld that translates
ApplyMatrix4(v, matrixWorld) == VAdd(v, matrixWorld)

\* The local triangles the index loop (or, without an index, the vertex loop)
\* hands to processTriangle, in order
Triangles(mesh) ==
  IF mesh.index # <<>>
    THEN [k \in 1..((Len(mesh.index) + 2) \div 3) |->
            <<mesh.vertices[mesh.index[3 * k - 2]],
              mesh.vertices[mesh.index[3 * k - 1]],
              mesh.vertices[mesh.index[3 * k]]>>]
    ELSE [k \in 1..((Len(mesh.vertices) + 2) \div 3) |->
            <<mesh.vertices[3 * k - 2], mesh.vertices[3 * k - 1],
              mesh.vertices[3 * k]>>]

\* mesh.updateMatrixWorld(true) on every mesh that is not a helper
UpdateMatrixWorld(meshes) ==
  [m \in 1..Len(meshes) |->
     IF meshes[m].isHelper THEN meshes[m]
     ELSE [meshes[m] EXCEPT !.matrixWorld = meshes[m].position]]

\* The world-space vertices of all the meshes, helpers included
WorldVerticesWithHelpers(meshes) ==
  UNION { { ApplyMatrix4(meshes[m].vertices[j], meshes[m].matrixWorld) :
              j \in 1..Len(meshes[m].vertices) } :
          m \in 1..Len(meshes) }

\* The world-space vertices of the meshes that are not helpers
WorldVertices(meshes) ==
  UNION { { ApplyMatrix4(meshes[m].vertices[j], meshes[m].matrixWorld) :
              j \in 1..Len(meshes[m].vertices) } :
          m \in {k \in 1..Len(meshes) : ~meshes[k].isHelper} }

RatMinOf(S) == CHOOSE x \in S : \A y \in S : RLe(x, y)

RatMaxOf(S) == CHOOSE x \in S : \A y \in S : RLe(y, x)

Coord(p, c) == Rat(p[c], p[4])

VOfCoords(x, y, z) ==
  VAdd(VAdd(VScale(V3(1, 0, 0), x), VScale(V3(0, 1, 0), y)), VScale(V3(0, 0, 1), z))

\* new Box3() expanded by every mesh that is not a helper: empty, or the
\* corners min and max
SceneBoundingBox(meshes) ==
  LET pts == WorldVertices(meshes)
      lo(k) == RatMinOf({Coord(p, k) : p \in pts})
      hi(k) == RatMaxOf({Coord(p, k) : p \in pts})
  IN  IF pts = {} THEN [empty |-> TRUE, min |-> Zero3, max |-> Zero3]
      ELSE [empty |-> FALSE, min |-> VOfCoords(lo(1), lo(2), lo(3)),
            max |-> VOfCoords(hi(1), hi(2), hi(3))]

\* Box3.getCenter
BoxCenter(box) == VScale(VAdd(box.min, box.max), <<1, 2>>)

\* normalize(target - position)
LightDirection(light) == Normalize(VSub(light.target, light.position))

-----------------------------------------------------------------------------
(* The hatch basis of a light *)

\* 20, the density factor of numHatchLines
DensityFactor == 20

\* The hatch line direction started from (0,1,0), with (1,0,0) as the first
\* fallback
HatchLineDirectionFromY(lightDirection, hatchAngle) ==
  LET dy == VDot(V3(0, 1, 0), lightDirection)
      first == IF RLt(<<99, 100>>, <<Abs(dy[1]), dy[2]>>) THEN V3(1, 0, 0) ELSE V3(0, 1, 0)
      h1 == Normalize(ProjectOnPlane(first, lightDirection))
      h2 == Normalize(ProjectOnPlane(V3(0, 0, 1), lightDirection))
      retry == RLt(VLengthSq(h1), <<1, 10>>)
      h == IF retry THEN h2 ELSE h1
  IN  [ok |-> ~RLt(VLengthSq(h), <<1, 10>>),
       h |-> ApplyAxisAngle(h, lightDirection, hatchAngle)]

\* The hatch line direction on the plane perpendicular to lightDirection:
\* (1,0,0), or (0,1,0) when that is within 0.99 of the light direction, then
\* (0,0,1) when the projection vanishes; rotated by hatchAngle about the
\* light direction.  ok is FALSE when no direction is found.
HatchLineDirection(lightDirection, hatchAngle) ==
  LET dx == VDot(V3(1, 0, 0), lightDirection)
      first == IF RLt(<<99, 100>>, <<Abs(dx[1]), dx[2]>>) THEN V3(0, 1, 0) ELSE V3(1, 0, 0)
      h1 == Normalize(ProjectOnPlane(first, lightDirection))
      h2 == Normalize(ProjectOnPlane(V3(0, 0, 1), lightDirection))
      retry == RLt(VLengthSq(h1), <<1, 10>>)
      h == IF retry THEN h2 ELSE h1
  IN  [ok |-> ~RLt(VLengthSq(h), <<1, 10>>),
       h |-> ApplyAxisAngle(h, lightDirection, hatchAngle)]

\* normalize(cross(h, lightDirection))
ScanDirection(h, lightDirection) == Normalize(VCross(h, lightDirection))

\* The scan value of a world vertex: projected onto the hatch base plane,
\* then onto the scan direction
ScanVal(vWorld, hatchBasePlane, scanDirection) ==
  VDot(ProjectPoint(hatchBasePlane, vWorld), scanDirection)

\* minScan and maxScan over the vertices of the meshes that are not helpers;
\* none stands for the untouched Infinity / -Infinity
ScanExtent(meshes, hatchBasePlane, scanDirection) ==
  LET vals == {ScanVal(v, hatchBasePlane, scanDirection) : v \in WorldVertices(meshes)}
  IN  IF vals = {} THEN [none |-> TRUE, min |-> RInt(0), max |-> RInt(0)]
      ELSE [none |-> FALSE, min |-> RatMinOf(vals), max |-> RatMaxOf(vals)]

\* A count that falls as the intensity rises: intensity replaced by 1 - intensity
DirectionalNumHatchLinesDimming(intensity, scanRange) ==
  Max(1, RFloor(RMul(RMul(RSub(RInt(1), intensity), scanRange), RInt(DensityFactor))))

\* Math.max(1, Math.floor(intensity * scanRange * 20))
DirectionalNumHatchLines(intensity, scanRange) ==
  Max(1, RFloor(RMul(RMul(intensity, scanRange), RInt(DensityFactor))))

-----------------------------------------------------------------------------
(* One triangle against one cutting plane *)

\* rawDotNL > -0.001: the triangle does not face the light
BackFaceTolerance == <<1, 1000>>

\* No alignment is required on any master line
DirectionalRequiredAlignmentNone(i) == <<0, 1>>

\* requiredFaceAlignment of a directional light's master line i
DirectionalRequiredAlignment(i) == IF i % 2 = 0 THEN <<1, 2>> ELSE <<1, 10>>

\* intersectionPoints.push unless a point within 0.000001 (squared) is there
PushUnlessNear(points, hit) ==
  IF hit = <<>> THEN points
  ELSE IF \E k \in 1..Len(points) : DistSqBelow(points[k], hit[1], 1000) THEN points
  ELSE Append(points, hit[1])

\* The de-duplicated intersections of the plane with the edges AB, BC, CA
EdgeIntersections(plane, a, b, c) ==
  PushUnlessNear(PushUnlessNear(PushUnlessNear(<<>>, IntersectLine(plane, a, b)),
                                IntersectLine(plane, b, c)),
                 IntersectLine(plane, c, a))

\* The points left in the order they were found
Unsorted(points, dir) == points

\* Array.sort by projection onto dir, ascending and stable
RECURSIVE SortByProjection(_, _)
SortByProjection(points, dir) ==
  IF points = <<>> THEN <<>>
  ELSE LET n == Len(points)
           p == points[n]
           sorted == SortByProjection(SubSeq(points, 1, n - 1), dir)
           k == Cardinality({j \in 1..(n - 1) : RLe(VDot(sorted[j], dir), VDot(p, dir))})
       IN  SubSeq(sorted, 1, k) \o <<p>> \o SubSeq(sorted, k + 1, n - 1)

Segment(p, q) == [start |-> p, end |-> q]

\* The segment of the intersection points without the test of its length
SegmentOfPointsAnyLength(points, dir) ==
  IF Len(points) = 2
    THEN <<Segment(points[1], points[2])>>
  ELSE IF Len(points) > 2
    THEN LET sorted == SortByProjection(points, dir)
         IN  <<Segment(sorted[1], sorted[Len(sorted)])>>
  ELSE <<>>

\* between them, more give the segment from the first to the last along
\* dir; a segment is kept when its squared length exceeds 0.00001.
SegmentOfPoints(points, dir) ==
  IF Len(points) = 2
    THEN IF DistSqAbove(points[1], points[2], 100000)
           THEN <<Segment(points[1], points[2])>> ELSE <<>>
  ELSE IF Len(points) > 2
    THEN LET sorted == SortByProjection(points, dir)
         IN  IF DistSqAbove(sorted[1], sorted[Len(sorted)], 100000)
               THEN <<Segment(sorted[1], sorted[Len(sorted)])>> ELSE <<>>
  ELSE <<>>

\* processTriangle of generateHatchLinesForDirectionalLight: the segments
\* (none or one) of a local triangle on master line i
ProcessTriangle(tri, worldMatrix, lightDirection, i, hatchCuttingPlane, h) ==
  LET a == ApplyMatrix4(tri[1], worldMatrix)
      b == ApplyMatrix4(tri[2], worldMatrix)
      c == ApplyMatrix4(tri[3], worldMatrix)
      rawDotNL == NormalDot(a, b, c, lightDirection)
      dotNL == <<-rawDotNL[1], rawDotNL[2]>>
  IN  IF RootLess(dotNL, BackFaceTolerance) THEN <<>>
      ELSE IF RootLess(dotNL, DirectionalRequiredAlignment(i)) THEN <<>>
      ELSE SegmentOfPoints(EdgeIntersections(hatchCuttingPlane, a, b, c), h)

\* A segment with the mesh and triangle it was cut from
Cut(segs, m, k) == [j \in 1..Len(segs) |-> [segment |-> segs[j], mesh |-> m, tri |-> k]]

\* segmentsForThisMasterLine with the segments of a master line merged into
\* one, from the start of the first to the end of the last
DirectionalLineSegmentsMerged(meshes, lightDirection, i, hatchCuttingPlane, h) ==
  LET all == Concat([m \in 1..Len(meshes) |->
                       IF meshes[m].isHelper THEN <<>>
                       ELSE Concat([k \in 1..Len(Triangles(meshes[m])) |->
                                      Cut(ProcessTriangle(Triangles(meshes[m])[k],
                                                          meshes[m].matrixWorld,
                                                          lightDirection, i,
                                                          hatchCuttingPlane, h),
                                          m, k)])])
  IN  IF all = <<>> THEN <<>>
      ELSE <<[all[1] EXCEPT !.segment.end = all[Len(all)].segment.end]>>

\* segmentsForThisMasterLine: every triangle of every mesh that is not a
\* helper, in order
DirectionalLineSegments(meshes, lightDirection, i, hatchCuttingPlane, h) ==
  Concat([m \in 1..Len(meshes) |->
            IF meshes[m].isHelper THEN <<>>
            ELSE Concat([k \in 1..Len(Triangles(meshes[m])) |->
                           Cut(ProcessTriangle(Triangles(meshes[m])[k], meshes[m].matrixWorld,
                                               lightDirection, i, hatchCuttingPlane, h),
                               m, k)])])

-----------------------------------------------------------------------------
(* generateHatchLinesForDirectionalLight up to its loop *)

\* Only the untouched Infinity is tested, not the width of the range
ScanRangeUntouched(extent) == extent.none

\* minScan === Infinity || maxScan === -Infinity || (maxScan - minScan) < 0.001
ScanRangeTooSmall(extent) ==
  extent.none \/ RLt(RSub(extent.max, extent.min), <<1, 1000>>)

NoSetup ==
  [lightDirection |-> Zero3, hatchLineDirection |-> Zero3, scanDirection |-> Zero3,
   planePoint |-> Zero3, minScan |-> RInt(0), scanRange |-> RInt(0),
   numHatchLines |-> 0]

\* What the function computes before its loop over the master lines; abort
\* is TRUE where it returns [] early.
DirectionalSetup(light, meshes) ==
  LET lightDirection == LightDirection(light)
      box == SceneBoundingBox(meshes)
      planePoint == BoxCenter(box)
      hatchBasePlane == PlaneFromNormalAndPoint(lightDirection, planePoint)
      dir == HatchLineDirection(lightDirection, light.hatchAngle)
      scanDirection == ScanDirection(dir.h, lightDirection)
      extent == ScanExtent(meshes, hatchBasePlane, scanDirection)
      scanRange == RSub(extent.max, extent.min)
  IN  IF \/ box.empty
         \/ ~dir.ok
         \/ RLt(VLengthSq(scanDirection), <<1, 10>>)
         \/ ScanRangeTooSmall(extent)
        THEN [abort |-> TRUE, setup |-> NoSetup]
        ELSE [abort |-> FALSE,
              setup |-> [lightDirection |-> lightDirection,
                         hatchLineDirection |-> dir.h,
                         scanDirection |-> scanDirection,
                         planePoint |-> planePoint,
                         minScan |-> extent.min,
                         scanRange |-> scanRange,
                         numHatchLines |->
                           DirectionalNumHatchLines(light.intensity, scanRange)]]

\* lineSpacing = scanRange / n
ScanOffsetOverN(minScan, scanRange, numHatchLines, i) ==
  RAdd(minScan, RMul(RInt(i), RDiv(scanRange, RInt(numHatchLines))))

\* scanOffset = minScan + i * lineSpacing, lineSpacing = scanRange / (n + 1)
ScanOffset(minScan, scanRange, numHatchLines, i) ==
  RAdd(minScan, RMul(RInt(i), RDiv(scanRange, RInt(numHatchLines + 1))))

\* The cutting plane of master line i: normal normalize(cross(h, d)) through
\* masterLinePoint; none when that normal is degenerate
HatchCuttingPlane(su, i) ==
  LET scanOffset == ScanOffset(su.minScan, su.scanRange, su.numHatchLines, i)
      masterLinePoint ==
        VAddScaled(su.planePoint, su.scanDirection,
                   RSub(scanOffset, VDot(su.planePoint, su.scanDirection)))
      normal == Normalize(VCross(su.hatchLineDirection, su.lightDirection))
  IN  [none |-> RLt(VLengthSq(normal), <<1, 10>>),
       scanOffset |-> scanOffset,
       plane |-> PlaneFromNormalAndPoint(normal, masterLinePoint)]

-----------------------------------------------------------------------------
(* The spotlight branch of generateHatchLines *)

\* nearDist
NearDist == 1

\* light.spotAngle || 60, in degrees
SpotAngleDegrees(light) == IF light.spotAngle = 0 THEN 60 ELSE light.spotAngle

\* Math.tan(degToRad(deg)); tan 60 = sqrt(3) is taken as 7/4
TanDeg(deg) == IF deg = 45 THEN <<1, 1>> ELSE <<7, 4>>

\* cos(degToRad(deg)) as a sign and a square
CosDegRoot(deg) == IF deg = 45 THEN <<1, <<1, 2>>>> ELSE <<1, <<1, 4>>>>

\* The directional light's floor of one line instead of five
SpotlightNumHatchLinesMin1(intensity) ==
  Max(1, RFloor(RMul(intensity, RInt(DensityFactor))))

\* Math.max(5, Math.floor(light.intensity * 20))
SpotlightNumHatchLines(intensity) ==
  Max(5, RFloor(RMul(intensity, RInt(DensityFactor))))

\* What the spotlight branch computes before its loop over the master
\* lines; abort is TRUE where the callback returns early.  planePoint holds
\* nearPlaneCenter, minScan -radiusOnNearPlane and scanRange the diameter.
SpotlightSetup(light) ==
  LET lightDirection == LightDirection(light)
      nearPlaneCenter == VAddScaled(light.position, lightDirection, RInt(NearDist))
      dir == HatchLineDirection(lightDirection, light.hatchAngle)
      scanDirection == ScanDirection(dir.h, lightDirection)
      radiusOnNearPlane == RMul(RInt(NearDist), TanDeg(SpotAngleDegrees(light)))
  IN  IF ~dir.ok \/ RLt(VLengthSq(scanDirection), <<1, 10>>)
        THEN [abort |-> TRUE, setup |-> NoSetup]
        ELSE [abort |-> FALSE,
              setup |-> [lightDirection |-> lightDirection,
                         hatchLineDirection |-> dir.h,
                         scanDirection |-> scanDirection,
                         planePoint |-> nearPlaneCenter,
                         minScan |-> RNeg(radiusOnNearPlane),
                         scanRange |-> RMul(RInt(2), radiusOnNearPlane),
                         numHatchLines |-> SpotlightNumHatchLines(light.intensity)]]

\* The cutting plane of a spotlight's master line i: the plane through the
\* light position and the near-plane points p1, p2 = center -+ halfLength * h,
\* center = nearPlaneCenter + scanOffset * scanDirection.  Its normal is
\* along cross(p2 - p1, position - p1) = 2 halfLength * cross(h, position -
\* center); the positive factor is left out.  none where the loop continues.
SpotlightCuttingPlane(su, lightPosition, i) ==
  LET scanOffset == ScanOffset(su.minScan, su.scanRange, su.numHatchLines, i)
      radiusSq == RSq(su.minScan)
      halfLengthSq == RMax(RInt(0), RSub(radiusSq, RSq(scanOffset)))
      center == VAddScaled(su.planePoint, su.scanDirection, scanOffset)
      normal == VCross(su.hatchLineDirection, VSub(lightPosition, center))
  IN  [none |-> RLt(halfLengthSq, <<1, 1000000>>) \/ VLengthSq(normal)[1] = 0,
       scanOffset |-> scanOffset,
       plane |-> PlaneFromNormalAndPoint(normal, lightPosition)]

\* requiredFaceAlignment of a spotlight's master line i
SpotlightRequiredAlignment(i) == IF i % 2 = 0 THEN <<3, 10>> ELSE <<1, 10>>

\* (p - lightPosition).angleTo(lightDirection) <= spotAngleRad
InCone(p, lightPosition, lightDirection, spotCos) ==
  ~RootLessRoot(CosAngleTo(VSub(p, lightPosition), lightDirection), spotCos)

\* Every edge intersection is kept, wherever it lies
SpotlightKeepsEvery(hit, lightPosition, lightDirection, spotCos) == hit

\* An edge intersection the spotlight keeps: inside the cone and at least
\* nearDist - 0.001 along the light direction
SpotlightKeeps(hit, lightPosition, lightDirection, spotCos) ==
  IF hit = <<>> THEN <<>>
  ELSE IF /\ InCone(hit[1], lightPosition, lightDirection, spotCos)
          /\ RLe(RSub(RInt(NearDist), <<1, 1000>>),
                 VDot(VSub(hit[1], lightPosition), lightDirection))
         THEN hit
  ELSE <<>>

SpotlightEdgeIntersections(plane, a, b, c, lightPosition, lightDirection, spotCos) ==
  LET keep(hit) == SpotlightKeeps(hit, lightPosition, lightDirection, spotCos)
  IN  PushUnlessNear(PushUnlessNear(PushUnlessNear(<<>>,
                                                   keep(IntersectLine(plane, a, b))),
                                    keep(IntersectLine(plane, b, c))),
                     keep(IntersectLine(plane, c, a)))

\* The segment is pushed when both its ends are within the cone
SpotlightSegmentOfPoints(points, dir, lightPosition, lightDirection, spotCos) ==
  LET segs == SegmentOfPoints(points, dir)
  IN  IF segs = <<>> THEN <<>>
      ELSE IF /\ InCone(segs[1].start, lightPosition, lightDirection, spotCos)
              /\ InCone(segs[1].end, lightPosition, lightDirection, spotCos)
             THEN segs
      ELSE <<>>

\* processTriangleForSpotlight with the quick reject on the triangle's first
\* vertex instead of its centre
ProcessTriangleForSpotlightVertexTested(tri, meshMatrixWorld, light, su, i, cuttingPlane) ==
  LET a == ApplyMatrix4(tri[1], meshMatrixWorld)
      b == ApplyMatrix4(tri[2], meshMatrixWorld)
      c == ApplyMatrix4(tri[3], meshMatrixWorld)
      spotCos == CosDegRoot(SpotAngleDegrees(light))
      cosToCenter == CosAngleTo(VSub(Midpoint(a, b, c), light.position), su.lightDirection)
      rawDotNL == NormalDot(a, b, c, su.lightDirection)
      dotNL == <<-rawDotNL[1], rawDotNL[2]>>
      angularAttenuation == cosToCenter[2]
      effectiveLightOnTriangle == <<dotNL[1], RMul(dotNL[2], RSq(angularAttenuation))>>
  IN  IF ~InCone(a, light.position, su.lightDirection, spotCos) THEN <<>>
      ELSE IF RootLess(dotNL, BackFaceTolerance) THEN <<>>
      ELSE IF RootLess(effectiveLightOnTriangle, SpotlightRequiredAlignment(i)) THEN <<>>
      ELSE SpotlightSegmentOfPoints(
             SpotlightEdgeIntersections(cuttingPlane, a, b, c, light.position,
                                        su.lightDirection, spotCos),
             su.hatchLineDirection, light.position, su.lightDirection, spotCos)

\* processTriangleForSpotlight: the segments (none or one) of a local
\* triangle on master line i
ProcessTriangleForSpotlight(tri, meshMatrixWorld, light, su, i, cuttingPlane) ==
  LET a == ApplyMatrix4(tri[1], meshMatrixWorld)
      b == ApplyMatrix4(tri[2], meshMatrixWorld)
      c == ApplyMatrix4(tri[3], meshMatrixWorld)
      spotCos == CosDegRoot(SpotAngleDegrees(light))
      cosToCenter == CosAngleTo(VSub(Midpoint(a, b, c), light.position), su.lightDirection)
      rawDotNL == NormalDot(a, b, c, su.lightDirection)
      dotNL == <<-rawDotNL[1], rawDotNL[2]>>
      angularAttenuation == cosToCenter[2]
      effectiveLightOnTriangle == <<dotNL[1], RMul(dotNL[2], RSq(angularAttenuation))>>
  IN  IF RootLessRoot(cosToCenter, spotCos) THEN <<>>
      ELSE IF RootLess(dotNL, BackFaceTolerance) THEN <<>>
      ELSE IF RootLess(effectiveLightOnTriangle, SpotlightRequiredAlignment(i)) THEN <<>>
      ELSE SpotlightSegmentOfPoints(
             SpotlightEdgeIntersections(cuttingPlane, a, b, c, light.position,
                                        su.lightDirection, spotCos),
             su.hatchLineDirection, light.position, su.lightDirection, spotCos)

\* segmentsForThisCuttingPlane: every triangle of every mesh that is not a
\* helper, in order
SpotlightLineSegments(meshes, light, su, i, cuttingPlane) ==
  Concat([m \in 1..Len(meshes) |->
            IF meshes[m].isHelper THEN <<>>
            ELSE Concat([k \in 1..Len(Triangles(meshes[m])) |->
                           Cut(ProcessTriangleForSpotlight(
                                 Triangles(meshes[m])[k], meshes[m].matrixWorld,
                                 light, su, i, cuttingPlane),
                               m, k)])])

-----------------------------------------------------------------------------
(* State *)

VARIABLES
  objectMeshes,    \* the meshes handed to generateHatchLines
  lights,          \* the lights handed to generateHatchLines
  pc,              \* where the call is: call, light, dirLine, spotLine, done
  lightIdx,        \* the light lights.forEach is at, from 1
  lineIdx,         \* the master hatch line index i of the current light
  setup,           \* the basis and line count of the current light
  generatedPaths,  \* generatedPaths / finalSpotlightPaths of the current light
  allHatchPaths,   \* allHatchPaths
  result,          \* the value returned
  error,           \* an exception left the call
  origins,         \* history: for each path so far, its light, line, mesh, triangle
  masterLines,     \* history: the master lines processed, with their scan offset
  earlier,         \* the caller's: what the earlier calls on these objects returned
  vector3,         \* projectToScreen: the point handed in
  projectionMatrix,\* projectToScreen: the matrix handed in, as four rows
  width,           \* projectToScreen: the width handed in
  height,          \* projectToScreen: the height handed in
  screen,          \* projectToScreen: the value returned
  hatchPaths,      \* exportToSVG: the paths handed in
  svg,             \* exportToSVG: the polylines of the string returned
  sceneState,      \* SceneProvider: lights, objects, camera, hatchLines, isDirty
  objectMeshesRef, \* SceneViewer: objectMeshesRef.current, each mesh with its id
  syncDue,         \* SceneViewer: the objects and lights effect has to run
  hatchDue,        \* SceneViewer: the hatch generation effect has to run
  op,              \* history: the last operation on the store
  camera,          \* the camera handed to generateHatchLines
  segment,         \* isPointOnSegment: the arguments p, a, b, epsilon
  onSegment,       \* isPointOnSegment: the value returned
  sceneLight,      \* the spotAngle of a light of the scene state
  spotLight        \* the angle of the viewport's SpotLight made for that light

\* The variables of a call of generateHatchLines
genVars ==
  <<objectMeshes, lights, pc, lightIdx, lineIdx, setup, generatedPaths,
    allHatchPaths, result, error, origins, masterLines>>

\* The arguments and the results of projectToScreen and exportToSVG
screenVars == <<vector3, projectionMatrix, width, height, screen, hatchPaths, svg>>

\* The scene store and the viewer's effects on it
storeVars == <<sceneState, objectMeshesRef, syncDue, hatchDue, op>>

\* isPointOnSegment's call, and one light's cone angle in the scene state and
\* in the viewport
unitVars == <<segment, onSegment, sceneLight, spotLight>>

\* What belongs to the caller of generateHatchLines
callerVars ==
  <<earlier, vector3, projectionMatrix, width, height, screen, hatchPaths, svg,
    sceneState, objectMeshesRef, syncDue, hatchDue, op, camera,
    segment, onSegment, sceneLight, spotLight>>

vars ==
  <<objectMeshes, lights, pc, lightIdx, lineIdx, setup, generatedPaths,
    allHatchPaths, result, error, origins, masterLines, earlier,
    vector3, projectionMatrix, width, height, screen, hatchPaths, svg,
    sceneState, objectMeshesRef, syncDue, hatchDue, op, camera,
    segment, onSegment, sceneLight, spotLight>>

\* The camera the viewer builds from the default camera state
InitialCamera == [position |-> <<5, 4, 10, 2>>]

\* The cameras a call can be handed
Cameras == {InitialCamera, [position |-> V3(0, 0, -5)]}

\* No call of isPointOnSegment
NoSegment == [p |-> Zero3, a |-> Zero3, b |-> Zero3, epsilon |-> <<0, 1>>]

NoAnswer == [returned |-> FALSE, value |-> FALSE]

\* A number q * pi^k, as spot angles are; no number when not set
PiNum(q, k) == [set |-> TRUE, q |-> q, k |-> k]

Undefined == [set |-> FALSE, q |-> <<0, 1>>, k |-> 0]

\* A light as added: directional, with no spotAngle
NoSceneLight == [type |-> "directional", spotAngle |-> Undefined]

Identity4 == <<<<1, 0, 0, 0>>, <<0, 1, 0, 0>>, <<0, 0, 1, 0>>, <<0, 0, 0, 1>>>>

\* No call of projectToScreen has returned
NoScreen == [returned |-> FALSE, x |-> RInt(0), y |-> RInt(0)]

\* No call of exportToSVG has returned
NoSvg == [returned |-> FALSE, polylines |-> <<>>]

\* A number of the camera state: finite, or Infinity (v = 1), -Infinity
\* (v = -1), NaN (v = 0)
Num(v) == [finite |-> TRUE, v |-> v]

Infinity == [finite |-> FALSE, v |-> 1]

\* defaultCameraState, of which the model keeps position and far; an object
\* literal is the sequence of its keys and values in the order written
DefaultCameraState ==
  [position |-> << <<"x", <<5, 2>> >>, <<"y", <<2, 1>> >>, <<"z", <<5, 1>> >> >>,
   far |-> Num(100)]

\* No store is mounted
NoStore ==
  [lights |-> <<>>, objects |-> <<>>, camera |-> DefaultCameraState,
   hatchLines |-> <<>>, isDirty |-> FALSE]

\* Before any operation on the store
NoOp == [name |-> "none"]

Init ==
  /\ objectMeshes \in Scenes
  /\ lights \in LightLists
  /\ pc = "call"
  /\ lightIdx = 0
  /\ lineIdx = 0
  /\ setup = NoSetup
  /\ generatedPaths = <<>>
  /\ allHatchPaths = <<>>
  /\ result = <<>>
  /\ error = FALSE
  /\ origins = <<>>
  /\ masterLines = <<>>
  /\ earlier = <<>>
  /\ vector3 = Zero3
  /\ projectionMatrix = Identity4
  /\ width = 0
  /\ height = 0
  /\ screen = NoScreen
  /\ hatchPaths = <<>>
  /\ svg = NoSvg
  /\ sceneState = NoStore
  /\ objectMeshesRef = <<>>
  /\ syncDue = FALSE
  /\ hatchDue = FALSE
  /\ op = NoOp
  /\ camera = InitialCamera
  /\ segment = NoSegment
  /\ onSegment = NoAnswer
  /\ sceneLight = NoSceneLight
  /\ spotLight = Undefined

\* objectMeshes.length === 0 || lights.length === 0
EmptyInput(meshes, lts) == Len(meshes) = 0 \/ Len(lts) = 0

\* generateHatchLines on an empty mesh or light list throwing instead
ReturnEmptyThrows ==
  /\ pc = "call"
  /\ EmptyInput(objectMeshes, lights)
  /\ pc' = "done"
  /\ error' = TRUE
  /\ UNCHANGED <<objectMeshes, lights, lightIdx, lineIdx, setup, generatedPaths,
                 allHatchPaths, result, origins, masterLines>>
  /\ UNCHANGED callerVars

\* generateHatchLines on an empty mesh or light list: return []
ReturnEmpty ==
  /\ pc = "call"
  /\ EmptyInput(objectMeshes, lights)
  /\ pc' = "done"
  /\ result' = <<>>
  /\ UNCHANGED <<objectMeshes, lights, lightIdx, lineIdx, setup, generatedPaths,
                 allHatchPaths, error, origins, masterLines>>
  /\ UNCHANGED callerVars

\* A generateHatchLines that hatches nothing for a camera behind the scene
BeginFacingCamera ==
  /\ pc = "call"
  /\ ~EmptyInput(objectMeshes, lights)
  /\ objectMeshes' = UpdateMatrixWorld(objectMeshes)
  /\ pc' = "light"
  /\ lightIdx' = IF camera.position[3] < 0 THEN Len(lights) + 1 ELSE 1
  /\ UNCHANGED <<lights, lineIdx, setup, generatedPaths, allHatchPaths, result,
                 error, origins, masterLines>>
  /\ UNCHANGED callerVars

\* generateHatchLines otherwise: update the world matrices, start the lights
Begin ==
  /\ pc = "call"
  /\ ~EmptyInput(objectMeshes, lights)
  /\ objectMeshes' = UpdateMatrixWorld(objectMeshes)
  /\ pc' = "light"
  /\ lightIdx' = 1
  /\ UNCHANGED <<lights, lineIdx, setup, generatedPaths, allHatchPaths, result,
                 error, origins, masterLines>>
  /\ UNCHANGED callerVars

CurrentLight == lights[lightIdx]

AtLight(type) ==
  /\ pc = "light"
  /\ lightIdx <= Len(lights)
  /\ CurrentLight.type = type

\* A directional light for which the function returns [] before its loop
DirectionalAbort ==
  /\ AtLight("directional")
  /\ DirectionalSetup(CurrentLight, objectMeshes).abort
  /\ lightIdx' = lightIdx + 1
  /\ UNCHANGED <<objectMeshes, lights, pc, lineIdx, setup, generatedPaths,
                 allHatchPaths, result, error, origins, masterLines>>
  /\ UNCHANGED callerVars

\* A directional light that reaches its loop over the master lines
DirectionalBegin ==
  /\ AtLight("directional")
  /\ ~DirectionalSetup(CurrentLight, objectMeshes).abort
  /\ setup' = DirectionalSetup(CurrentLight, objectMeshes).setup
  /\ pc' = "dirLine"
  /\ lineIdx' = 1
  /\ UNCHANGED <<objectMeshes, lights, lightIdx, generatedPaths, allHatchPaths,
                 result, error, origins, masterLines>>
  /\ UNCHANGED callerVars

\* generatedPaths.push(segments): the segments of a master line as one path
PathsOfJoined(cuts) ==
  IF cuts = <<>> THEN <<>> ELSE <<[j \in 1..Len(cuts) |-> cuts[j].segment]>>

\* generatedPaths.push([segment]) for each segment of the master line
PathsOf(cuts) == [j \in 1..Len(cuts) |-> <<cuts[j].segment>>]

OriginsOf(cuts, light, line) ==
  [j \in 1..Len(cuts) |->
     [light |-> light, line |-> line, mesh |-> cuts[j].mesh, tri |-> cuts[j].tri]]

\* One iteration of the loop for (let i = 1; i <= numHatchLines; i++)
DirectionalLine ==
  /\ pc = "dirLine"
  /\ lineIdx <= setup.numHatchLines
  /\ LET cp == HatchCuttingPlane(setup, lineIdx)
         cuts == IF cp.none THEN <<>>
                 ELSE DirectionalLineSegments(objectMeshes, setup.lightDirection,
                                              lineIdx, cp.plane, setup.hatchLineDirection)
     IN  /\ generatedPaths' = generatedPaths \o PathsOf(cuts)
         /\ origins' = origins \o OriginsOf(cuts, lightIdx, lineIdx)
         /\ masterLines' = Append(masterLines,
                                  [light |-> lightIdx, i |-> lineIdx,
                                   scanOffset |-> cp.scanOffset])
  /\ lineIdx' = lineIdx + 1
  /\ UNCHANGED <<objectMeshes, lights, pc, lightIdx, setup, allHatchPaths, result, error>>
  /\ UNCHANGED callerVars

\* The loop is over: return generatedPaths; allHatchPaths.push(...)
DirectionalReturn ==
  /\ pc = "dirLine"
  /\ lineIdx > setup.numHatchLines
  /\ allHatchPaths' = allHatchPaths \o generatedPaths
  /\ generatedPaths' = <<>>
  /\ setup' = NoSetup
  /\ lineIdx' = 0
  /\ lightIdx' = lightIdx + 1
  /\ pc' = "light"
  /\ UNCHANGED <<objectMeshes, lights, result, error, origins, masterLines>>
  /\ UNCHANGED callerVars

\* A spotlight whose callback returns before its loop
SpotlightAbort ==
  /\ AtLight("spotlight")
  /\ SpotlightSetup(CurrentLight).abort
  /\ lightIdx' = lightIdx + 1
  /\ UNCHANGED <<objectMeshes, lights, pc, lineIdx, setup, generatedPaths,
                 allHatchPaths, result, error, origins, masterLines>>
  /\ UNCHANGED callerVars

\* A spotlight that reaches its loop over the master lines
SpotlightBegin ==
  /\ AtLight("spotlight")
  /\ ~SpotlightSetup(CurrentLight).abort
  /\ setup' = SpotlightSetup(CurrentLight).setup
  /\ pc' = "spotLine"
  /\ lineIdx' = 1
  /\ UNCHANGED <<objectMeshes, lights, lightIdx, generatedPaths, allHatchPaths,
                 result, error, origins, masterLines>>
  /\ UNCHANGED callerVars

\* finalSpotlightPaths.push(...segmentsForThisCuttingPlane.map(seg => [seg]))
SpotlightPathsOf(cuts) == [j \in 1..Len(cuts) |-> <<cuts[j].segment>>]

\* One iteration of the spotlight's loop over the master lines
SpotlightLine ==
  /\ pc = "spotLine"
  /\ lineIdx <= setup.numHatchLines
  /\ LET cp == SpotlightCuttingPlane(setup, CurrentLight.position, lineIdx)
         cuts == IF cp.none THEN <<>>
                 ELSE SpotlightLineSegments(objectMeshes, CurrentLight, setup,
                                            lineIdx, cp.plane)
     IN  /\ generatedPaths' = generatedPaths \o SpotlightPathsOf(cuts)
         /\ origins' = origins \o OriginsOf(cuts, lightIdx, lineIdx)
         /\ masterLines' = Append(masterLines,
                                  [light |-> lightIdx, i |-> lineIdx,
                                   scanOffset |-> cp.scanOffset])
  /\ lineIdx' = lineIdx + 1
  /\ UNCHANGED <<objectMeshes, lights, pc, lightIdx, setup, allHatchPaths, result, error>>
  /\ UNCHANGED callerVars

\* The loop is over: allHatchPaths.push(...finalSpotlightPaths)
SpotlightDone ==
  /\ pc = "spotLine"
  /\ lineIdx > setup.numHatchLines
  /\ allHatchPaths' = allHatchPaths \o generatedPaths
  /\ generatedPaths' = <<>>
  /\ setup' = NoSetup
  /\ lineIdx' = 0
  /\ lightIdx' = lightIdx + 1
  /\ pc' = "light"
  /\ UNCHANGED <<objectMeshes, lights, result, error, origins, masterLines>>
  /\ UNCHANGED callerVars

\* A light that is neither directional nor a spotlight ending the call
UnsupportedLightThrows ==
  /\ pc = "light"
  /\ lightIdx <= Len(lights)
  /\ CurrentLight.type \notin {"directional", "spotlight"}
  /\ pc' = "done"
  /\ error' = TRUE
  /\ UNCHANGED <<objectMeshes, lights, lightIdx, lineIdx, setup, generatedPaths,
                 allHatchPaths, result, origins, masterLines>>
  /\ UNCHANGED callerVars

\* A light that is neither directional nor a spotlight: a warning, no paths
UnsupportedLight ==
  /\ pc = "light"
  /\ lightIdx <= Len(lights)
  /\ CurrentLight.type \notin {"directional", "spotlight"}
  /\ lightIdx' = lightIdx + 1
  /\ UNCHANGED <<objectMeshes, lights, pc, lineIdx, setup, generatedPaths,
                 allHatchPaths, result, error, origins, masterLines>>
  /\ UNCHANGED callerVars

\* lights.forEach is over: return allHatchPaths
Return ==
  /\ pc = "light"
  /\ lightIdx > Len(lights)
  /\ result' = allHatchPaths
  /\ pc' = "done"
  /\ UNCHANGED <<objectMeshes, lights, lightIdx, lineIdx, setup, generatedPaths,
                 allHatchPaths, error, origins, masterLines>>
  /\ UNCHANGED callerVars

-----------------------------------------------------------------------------
(* generateHatchLines as a function of its arguments *)

\* The paths of master line i of a directional light with the basis su
DirectionalLinePaths(su, meshes, i, cp) ==
  IF cp.none THEN <<>>
  ELSE PathsOf(DirectionalLineSegments(meshes, su.lightDirection, i, cp.plane,
                                       su.hatchLineDirection))

\* The paths of a directional light whose setup gave r
DirectionalPaths(r, meshes) ==
  IF r.abort THEN <<>>
  ELSE Concat([i \in 1..r.setup.numHatchLines |->
                 DirectionalLinePaths(r.setup, meshes, i, HatchCuttingPlane(r.setup, i))])

\* The paths of master line i of a spotlight with the basis su
SpotlightLinePaths(su, light, meshes, i, cp) ==
  IF cp.none THEN <<>>
  ELSE SpotlightPathsOf(SpotlightLineSegments(meshes, light, su, i, cp.plane))

\* The paths of a spotlight whose setup gave r
SpotlightPaths(r, light, meshes) ==
  IF r.abort THEN <<>>
  ELSE Concat([i \in 1..r.setup.numHatchLines |->
                 SpotlightLinePaths(r.setup, light, meshes, i,
                                    SpotlightCuttingPlane(r.setup, light.position, i))])

\* The paths one light adds to allHatchPaths
LightPaths(light, meshes) ==
  IF light.type = "directional"
    THEN DirectionalPaths(DirectionalSetup(light, meshes), meshes)
  ELSE IF light.type = "spotlight"
    THEN SpotlightPaths(SpotlightSetup(light), light, meshes)
  ELSE <<>>

\* The value generateHatchLines(meshes, lts, camera) returns
GenerateHatchLines(meshes, lts) ==
  IF EmptyInput(meshes, lts) THEN <<>>
  ELSE Concat([k \in 1..Len(lts) |-> LightPaths(lts[k], UpdateMatrixWorld(meshes))])

Next ==
  \/ ReturnEmpty
  \/ Begin
  \/ DirectionalAbort
  \/ DirectionalBegin
  \/ DirectionalLine
  \/ DirectionalReturn
  \/ SpotlightAbort
  \/ SpotlightBegin
  \/ SpotlightLine
  \/ SpotlightDone
  \/ UnsupportedLight
  \/ Return

Spec == Init /\ [][Next]_vars

-----------------------------------------------------------------------------
(* The caller: generateHatchLines called again on the same objects *)

\* The calls a caller makes on one scene
MaxCalls == 2

\* A later call whose allHatchPaths is the array of the call before
CallAgainKeepingPaths ==
  /\ pc = "done"
  /\ ~error
  /\ Len(earlier) + 1 < MaxCalls
  /\ earlier' = Append(earlier, result)
  /\ pc' = "call"
  /\ lightIdx' = 0
  /\ lineIdx' = 0
  /\ setup' = NoSetup
  /\ generatedPaths' = <<>>
  /\ result' = <<>>
  /\ origins' = <<>>
  /\ masterLines' = <<>>
  /\ camera' \in Cameras
  /\ UNCHANGED <<objectMeshes, lights, allHatchPaths, error>>
  /\ UNCHANGED <<screenVars, storeVars, unitVars>>

\* The effect runs again: setHatchLines(newHatchLines), then a new call on
\* objectMeshesRef.current and lights, which starts with const allHatchPaths = []
CallAgain ==
  /\ pc = "done"
  /\ ~error
  /\ Len(earlier) + 1 < MaxCalls
  /\ earlier' = Append(earlier, result)
  /\ pc' = "call"
  /\ lightIdx' = 0
  /\ lineIdx' = 0
  /\ setup' = NoSetup
  /\ generatedPaths' = <<>>
  /\ allHatchPaths' = <<>>
  /\ result' = <<>>
  /\ origins' = <<>>
  /\ masterLines' = <<>>
  /\ camera' \in Cameras
  /\ UNCHANGED <<objectMeshes, lights, error>>
  /\ UNCHANGED <<screenVars, storeVars, unitVars>>

NextAgain ==
  \/ Next
  \/ CallAgain

SpecAgain == Init /\ [][NextAgain]_vars

-----------------------------------------------------------------------------
(* projectToScreen *)

\* Vector3.applyMatrix4 with its perspective divide: every row of the matrix
\* against (x, y, z, 1), the first three results over the fourth
ApplyMatrix4Divide(v, m) ==
  LET row(r) == m[r][1] * v[1] + m[r][2] * v[2] + m[r][3] * v[3] + m[r][4] * v[4]
  IN  Vec(row(1), row(2), row(3), row(4))

\* The viewport mapping: the origin at the top left corner and y downwards
ProjectToScreenViewport(v, m, w, h) ==
  LET projected == ApplyMatrix4Divide(v, m)
  IN  [returned |-> TRUE,
       x |-> RMul(RAdd(Coord(projected, 1), RInt(1)), Rat(w, 2)),
       y |-> RMul(RSub(RInt(1), Coord(projected, 2)), Rat(h, 2))]

\* projected = vector3.clone().applyMatrix4(projectionMatrix);
\* x = projected.x * (width / 2); y = projected.y * (height / 2)
ProjectToScreen(v, m, w, h) ==
  LET projected == ApplyMatrix4Divide(v, m)
  IN  [returned |-> TRUE,
       x |-> RMul(Coord(projected, 1), Rat(w, 2)),
       y |-> RMul(Coord(projected, 2), Rat(h, 2))]

\* Projection matrices: the identity, an orthographic one that halves, a
\* perspective one (w = -z), an off-centre orthographic one
ProjectionMatrices ==
  { Identity4,
    <<<<1, 0, 0, 0>>, <<0, 1, 0, 0>>, <<0, 0, -1, 0>>, <<0, 0, 0, 2>>>>,
    <<<<1, 0, 0, 0>>, <<0, 1, 0, 0>>, <<0, 0, -1, -2>>, <<0, 0, -1, 0>>>>,
    <<<<1, 0, 0, 1>>, <<0, 1, 0, -1>>, <<0, 0, -1, 0>>, <<0, 0, 0, 1>>>> }

\* Points in front of the camera
ProjectedPoints ==
  { V3(0, 0, -1), V3(0, 0, -5), V3(1, 1, -1), V3(-1, 1, -1), V3(-1, 2, -2),
    <<1, -1, -8, 2>>, V3(2, -3, -1) }

Widths == {1, 800, 1024}

Heights == {1, 600, 768}

\* Number.toFixed(2): the number rounded to hundredths, halves away from
\* zero, as the count of hundredths
ToFixed2(r) ==
  LET n == Abs(r[1]) * 200 + r[2]
      q == n \div (2 * r[2])
  IN  IF r[1] < 0 THEN -q ELSE q

\* The points of a polyline with both ends of every segment pushed
PolylinePointsBothEnds(path, m, w, h) ==
  LET at(p) == LET s2 == ProjectToScreen(p, m, w, h)
               IN  <<ToFixed2(s2.x), ToFixed2(s2.y)>>
  IN  [k \in 1..(2 * Len(path)) |->
         IF k % 2 = 1 THEN at(path[(k + 1) \div 2].start) ELSE at(path[k \div 2].end)]

\* The points of the polyline of one path: the start of the first segment,
\* then the end of every segment, each projected and written with toFixed(2)
PolylinePoints(path, m, w, h) ==
  LET at(p) == LET s2 == ProjectToScreen(p, m, w, h)
               IN  <<ToFixed2(s2.x), ToFixed2(s2.y)>>
  IN  <<at(path[1].start)>> \o [k \in 1..Len(path) |-> at(path[k].end)]

\* hatchPaths.forEach: a polyline for every path with path.length > 0
RECURSIVE ExportToSVG(_, _, _, _)
ExportToSVG(paths, m, w, h) ==
  IF paths = <<>> THEN <<>>
  ELSE (IF Len(Head(paths)) > 0 THEN <<PolylinePoints(Head(paths), m, w, h)>> ELSE <<>>)
       \o ExportToSVG(Tail(paths), m, w, h)

\* Segments between the projected points
Seg(a, b) == [start |-> a, end |-> b]

\* Paths of no, one, two and three segments
PathCatalog ==
  << <<>>,
     <<Seg(V3(0, 0, -1), V3(1, 1, -1))>>,
     <<Seg(V3(1, 1, -1), V3(-1, 2, -2)), Seg(V3(-1, 2, -2), <<1, -1, -8, 2>>)>>,
     <<Seg(V3(2, -3, -1), V3(0, 0, -5)), Seg(V3(0, 0, -5), V3(-1, 1, -1)),
       Seg(<<1, 1, -3, 3>>, <<2, -1, -3, 3>>)>> >>

\* The most paths one call of exportToSVG is given
MaxPaths == 2

RECURSIVE PathLists(_)
PathLists(n) ==
  IF n = 0 THEN {<<>>}
  ELSE PathLists(n - 1) \cup
       {Append(l, PathCatalog[k]) : l \in PathLists(n - 1), k \in 1..Len(PathCatalog)}

\* A call of projectToScreen and one of exportToSVG about to be made,
\* outside any call of generateHatchLines
ProjectInit ==
  /\ objectMeshes = <<>>
  /\ lights = <<>>
  /\ pc = "done"
  /\ lightIdx = 0
  /\ lineIdx = 0
  /\ setup = NoSetup
  /\ generatedPaths = <<>>
  /\ allHatchPaths = <<>>
  /\ result = <<>>
  /\ error = FALSE
  /\ origins = <<>>
  /\ masterLines = <<>>
  /\ earlier = <<>>
  /\ vector3 \in ProjectedPoints
  /\ projectionMatrix \in ProjectionMatrices
  /\ width \in Widths
  /\ height \in Heights
  /\ screen = NoScreen
  /\ hatchPaths \in PathLists(MaxPaths)
  /\ svg = NoSvg
  /\ sceneState = NoStore
  /\ objectMeshesRef = <<>>
  /\ syncDue = FALSE
  /\ hatchDue = FALSE
  /\ op = NoOp
  /\ camera = InitialCamera
  /\ segment = NoSegment
  /\ onSegment = NoAnswer
  /\ sceneLight = NoSceneLight
  /\ spotLight = Undefined

\* The call: return { x, y }; the arguments are left as they are
Project ==
  /\ ~screen.returned
  /\ screen' = ProjectToScreen(vector3, projectionMatrix, width, height)
  /\ UNCHANGED <<vector3, projectionMatrix, width, height, hatchPaths, svg>>
  /\ UNCHANGED <<genVars, earlier, storeVars, camera, unitVars>>

\* exportToSVG(hatchPaths, camera, sceneWidth, sceneHeight): return svgString
Export ==
  /\ ~svg.returned
  /\ svg' = [returned |-> TRUE,
             polylines |-> ExportToSVG(hatchPaths, projectionMatrix, width, height)]
  /\ UNCHANGED <<vector3, projectionMatrix, width, height, hatchPaths, screen>>
  /\ UNCHANGED <<genVars, earlier, storeVars, camera, unitVars>>

ProjectNext ==
  \/ Project
  \/ Export

SpecProject == ProjectInit /\ [][ProjectNext]_vars

-----------------------------------------------------------------------------
(* isPointOnSegment *)

\* isPointOnSegment without its branch for a segment shorter than epsilon
IsPointOnSegmentAnyLength(p, a, b, epsilon) ==
  LET abDistSq == VLengthSq(VSub(a, b))
      pa == VSub(p, a)
      ba == VSub(b, a)
      dotPaBa == VDot(pa, ba)
  IN  IF RLt(dotPaBa, RNeg(epsilon)) \/ RLt(RAdd(abDistSq, epsilon), dotPaBa) THEN FALSE
      ELSE IF RLt(RMul(RSq(epsilon), abDistSq), VLengthSq(VCross(pa, ba))) THEN FALSE
      ELSE TRUE

\* isPointOnSegment(p, a, b, epsilon)
IsPointOnSegment(p, a, b, epsilon) ==
  LET abDistSq == VLengthSq(VSub(a, b))
      pa == VSub(p, a)
      ba == VSub(b, a)
      dotPaBa == VDot(pa, ba)
  IN  IF RLt(abDistSq, RSq(epsilon)) THEN RLt(VLengthSq(VSub(p, a)), RSq(epsilon))
      ELSE IF RLt(dotPaBa, RNeg(epsilon)) \/ RLt(RAdd(abDistSq, epsilon), dotPaBa) THEN FALSE
      ELSE IF RLt(RMul(RSq(epsilon), abDistSq), VLengthSq(VCross(pa, ba))) THEN FALSE
      ELSE TRUE

\* The points, segments and tolerances isPointOnSegment is called with
SegmentPoints ==
  {V3(x, y, 0) : x \in -1..3, y \in 0..1} \cup {<<1, 0, 0, 2>>, <<0, 0, 1, 2>>, V3(0, 0, 3)}

SegmentEnds == {Zero3, V3(1, 0, 0), V3(2, 0, 0), V3(0, 0, 2)}

Epsilons == {<<0, 1>>, <<1, 1000>>, <<1, 2>>, <<1, 1>>, <<2, 1>>}

SegmentInit ==
  /\ objectMeshes = <<>>
  /\ lights = <<>>
  /\ pc = "done"
  /\ lightIdx = 0
  /\ lineIdx = 0
  /\ setup = NoSetup
  /\ generatedPaths = <<>>
  /\ allHatchPaths = <<>>
  /\ result = <<>>
  /\ error = FALSE
  /\ origins = <<>>
  /\ masterLines = <<>>
  /\ earlier = <<>>
  /\ vector3 = Zero3
  /\ projectionMatrix = Identity4
  /\ width = 0
  /\ height = 0
  /\ screen = NoScreen
  /\ hatchPaths = <<>>
  /\ svg = NoSvg
  /\ sceneState = NoStore
  /\ objectMeshesRef = <<>>
  /\ syncDue = FALSE
  /\ hatchDue = FALSE
  /\ op = NoOp
  /\ camera = InitialCamera
  /\ segment \in [p : SegmentPoints, a : {Zero3, V3(1, 0, 0)}, b : SegmentEnds,
                  epsilon : Epsilons]
  /\ onSegment = NoAnswer
  /\ sceneLight = NoSceneLight
  /\ spotLight = Undefined

\* The call: the value returned; the arguments are left as they are
CallIsPointOnSegment ==
  /\ ~onSegment.returned
  /\ onSegment' = [returned |-> TRUE,
                   value |-> IsPointOnSegment(segment.p, segment.a, segment.b,
                                              segment.epsilon)]
  /\ UNCHANGED <<genVars, earlier, screenVars, storeVars, camera, segment,
                 sceneLight, spotLight>>

SegmentNext == CallIsPointOnSegment

SpecSegment == SegmentInit /\ [][SegmentNext]_vars

-----------------------------------------------------------------------------
(* The cone angle of a spotlight, from the controls panel to the viewport *)

\* THREE.MathUtils.degToRad(degrees): degrees * pi / 180
DegToRad(degrees) == PiNum(RMul(degrees.q, <<1, 180>>), degrees.k + 1)

\* spotAngle || 60
OrSixty(spotAngle) ==
  IF spotAngle.set /\ spotAngle.q[1] # 0 THEN spotAngle ELSE PiNum(RInt(60), 0)

\* generateHatchLines: spotAngleRad, the half-angle of the cone in radians
SpotAngleRad(spotAngle) == DegToRad(OrSixty(spotAngle))

\* createLightSources: spotLight.angle of a new SpotLight
CreatedAngle(spotAngle) == DegToRad(OrSixty(spotAngle))

\* updateLightProperties: spotLight.angle = sceneLight.spotAngle ?? spotLight.angle
UpdatedAngle(angle, spotAngle) == IF spotAngle.set THEN spotAngle ELSE angle

\* The degrees the panel's Spot Angle input takes
SpotAngleInputs == 1..90

AngleInit ==
  /\ objectMeshes = <<>>
  /\ lights = <<>>
  /\ pc = "done"
  /\ lightIdx = 0
  /\ lineIdx = 0
  /\ setup = NoSetup
  /\ generatedPaths = <<>>
  /\ allHatchPaths = <<>>
  /\ result = <<>>
  /\ error = FALSE
  /\ origins = <<>>
  /\ masterLines = <<>>
  /\ earlier = <<>>
  /\ vector3 = Zero3
  /\ projectionMatrix = Identity4
  /\ width = 0
  /\ height = 0
  /\ screen = NoScreen
  /\ hatchPaths = <<>>
  /\ svg = NoSvg
  /\ sceneState = NoStore
  /\ objectMeshesRef = <<>>
  /\ syncDue = FALSE
  /\ hatchDue = FALSE
  /\ op = NoOp
  /\ camera = InitialCamera
  /\ segment = NoSegment
  /\ onSegment = NoAnswer
  /\ sceneLight = NoSceneLight
  /\ spotLight = Undefined

OutsideAngle ==
  UNCHANGED <<genVars, earlier, screenVars, sceneState, objectMeshesRef, syncDue,
              hatchDue, camera, segment, onSegment>>

\* handleLightChange(id, 'type', value)
ChangeType(value) ==
  /\ sceneLight' =
       [type |-> value,
        spotAngle |-> IF value = "spotlight" /\ ~sceneLight.spotAngle.set
                        THEN DegToRad(PiNum(RInt(30), 0))
                        ELSE sceneLight.spotAngle]
  /\ op' = [name |-> "changeType",
            defaulted |-> (value = "spotlight" /\ ~sceneLight.spotAngle.set)]
  /\ UNCHANGED spotLight
  /\ OutsideAngle

\* handleLightChange(id, 'spotAngle', angleDeg), from the input shown for a
\* spotlight
ChangeSpotAngle(angleDeg) ==
  /\ sceneLight.type = "spotlight"
  /\ sceneLight' = [sceneLight EXCEPT !.spotAngle = PiNum(RInt(angleDeg), 0)]
  /\ op' = [name |-> "changeSpotAngle"]
  /\ UNCHANGED spotLight
  /\ OutsideAngle

\* The viewer's effect on this light: a viewport light of another type is
\* removed, a missing one is created, and updateLightProperties is applied
SyncLight ==
  /\ spotLight' =
       IF sceneLight.type # "spotlight" THEN Undefined
       ELSE UpdatedAngle(IF spotLight.set THEN spotLight
                         ELSE CreatedAngle(sceneLight.spotAngle),
                         sceneLight.spotAngle)
  /\ op' = [name |-> "syncLight"]
  /\ UNCHANGED sceneLight
  /\ OutsideAngle

AngleNext ==
  \/ \E value \in {"directional", "spotlight"} : ChangeType(value)
  \/ \E angleDeg \in SpotAngleInputs : ChangeSpotAngle(angleDeg)
  \/ SyncLight

SpecAngle == AngleInit /\ [][AngleNext]_vars

-----------------------------------------------------------------------------
(* The scene store of SceneProvider *)

\* The ids uuidv4 can return
MaxIds == 2

Ids == 1..MaxIds

\* { ...l, ...updates }
Merge(l, updates) ==
  [f \in DOMAIN l \cup DOMAIN updates |-> IF f \in DOMAIN updates THEN updates[f] ELSE l[f]]

\* JSON.stringify of a camera state: the keys in their order, a number that
\* is not finite as null
Stringify(cameraState) ==
  [position |-> cameraState.position,
   far |-> IF cameraState.far.finite THEN cameraState.far
           ELSE [finite |-> FALSE, v |-> 0]]

\* The light the controls panel adds; the model keeps lights on an axis
LightData ==
  { [type |-> "directional", position |-> V3(0, 0, 5), target |-> Zero3,
     intensity |-> <<1, 10>>, hatchAngle |-> 0, spotAngle |-> 0] }

LightUpdates ==
  { [intensity |-> <<1, 25>>] }

\* An object; the model gives every object the geometry of one triangle
ObjectData ==
  { [type |-> "box", position |-> Zero3] }

ObjectUpdates ==
  { [position |-> V3(0, 2, 0)], [position |-> Zero3] }

CameraUpdates ==
  { [far |-> Infinity], [far |-> [finite |-> FALSE, v |-> -1]],
    [position |-> << <<"z", <<5, 1>> >>, <<"y", <<2, 1>> >>, <<"x", <<5, 2>> >> >>],
    [position |-> << <<"x", <<0, 1>> >>, <<"y", <<2, 1>> >>, <<"z", <<5, 1>> >> >>] }

HatchLinesGiven ==
  { <<>>, <<<<Seg(V3(0, 0, 0), V3(1, 0, 0))>>>> }

\* getInitialState: one light, two objects, nothing hatched, dirty
InitialState ==
  [lights |-> << [id |-> 1, type |-> "directional", position |-> V3(0, 0, 5),
                  target |-> Zero3, intensity |-> <<1, 10>>, hatchAngle |-> 0,
                  spotAngle |-> 0] >>,
   objects |-> << [id |-> 1, type |-> "box", position |-> Zero3],
                  [id |-> 2, type |-> "sphere", position |-> <<3, 1, -1, 2>>] >>,
   camera |-> DefaultCameraState,
   hatchLines |-> <<>>,
   isDirty |-> TRUE]

\* The store and the viewer once mounted: every effect has yet to run
StoreInit ==
  /\ objectMeshes = <<>>
  /\ lights = <<>>
  /\ pc = "done"
  /\ lightIdx = 0
  /\ lineIdx = 0
  /\ setup = NoSetup
  /\ generatedPaths = <<>>
  /\ allHatchPaths = <<>>
  /\ result = <<>>
  /\ error = FALSE
  /\ origins = <<>>
  /\ masterLines = <<>>
  /\ earlier = <<>>
  /\ vector3 = Zero3
  /\ projectionMatrix = Identity4
  /\ width = 0
  /\ height = 0
  /\ screen = NoScreen
  /\ hatchPaths = <<>>
  /\ svg = NoSvg
  /\ sceneState = InitialState
  /\ objectMeshesRef = <<>>
  /\ syncDue = TRUE
  /\ hatchDue = TRUE
  /\ op = NoOp
  /\ camera = InitialCamera
  /\ segment = NoSegment
  /\ onSegment = NoAnswer
  /\ sceneLight = NoSceneLight
  /\ spotLight = Undefined

\* The entries of list whose id is not id, in order
RECURSIVE Without(_, _)
Without(list, id) ==
  IF list = <<>> THEN <<>>
  ELSE (IF Head(list).id # id THEN <<Head(list)>> ELSE <<>>) \o Without(Tail(list), id)

\* The list with the updates merged into the entry at the head, whatever its id
UpdatedAtHead(list, id, updates) ==
  [k \in 1..Len(list) |-> IF k = 1 THEN Merge(list[k], updates) ELSE list[k]]

\* list.map(l => (l.id === id ? { ...l, ...updates } : l))
Updated(list, id, updates) ==
  [k \in 1..Len(list) |-> IF list[k].id = id THEN Merge(list[k], updates) ELSE list[k]]

\* A store operation leaves everything outside the store as it is
OutsideStore == UNCHANGED <<genVars, earlier, screenVars, objectMeshesRef, camera, unitVars>>

\* setDirty(dirty)
SetDirty(dirty) ==
  /\ sceneState' = [sceneState EXCEPT !.isDirty = dirty]
  /\ hatchDue' = (hatchDue \/ sceneState.isDirty # dirty)
  /\ op' = [name |-> "setDirty"]
  /\ UNCHANGED syncDue
  /\ OutsideStore

\* addLight(lightData): the new light gets an id no light has
AddLight(lightData, id) ==
  /\ \A k \in 1..Len(sceneState.lights) : sceneState.lights[k].id # id
  /\ sceneState' = [sceneState EXCEPT !.lights = Append(@, Merge(lightData, [id |-> id])),
                                      !.isDirty = TRUE]
  /\ syncDue' = TRUE
  /\ hatchDue' = TRUE
  /\ op' = [name |-> "addLight"]
  /\ OutsideStore

\* removeLight(lightId)
RemoveLight(id) ==
  /\ sceneState' = [sceneState EXCEPT !.lights = Without(@, id), !.isDirty = TRUE]
  /\ syncDue' = TRUE
  /\ hatchDue' = TRUE
  /\ op' = [name |-> "removeLight"]
  /\ OutsideStore

\* updateLight(lightId, updates)
UpdateLight(id, updates) ==
  /\ sceneState' = [sceneState EXCEPT !.lights = Updated(@, id, updates), !.isDirty = TRUE]
  /\ syncDue' = TRUE
  /\ hatchDue' = TRUE
  /\ op' = [name |-> "updateLight"]
  /\ OutsideStore

\* addObject(objectData): the new object gets an id no object has
AddObject(objectData, id) ==
  /\ \A k \in 1..Len(sceneState.objects) : sceneState.objects[k].id # id
  /\ sceneState' = [sceneState EXCEPT !.objects = Append(@, Merge(objectData, [id |-> id])),
                                      !.isDirty = TRUE]
  /\ syncDue' = TRUE
  /\ hatchDue' = TRUE
  /\ op' = [name |-> "addObject"]
  /\ OutsideStore

\* removeObject(objectId)
RemoveObject(id) ==
  /\ sceneState' = [sceneState EXCEPT !.objects = Without(@, id), !.isDirty = TRUE]
  /\ syncDue' = TRUE
  /\ hatchDue' = TRUE
  /\ op' = [name |-> "removeObject"]
  /\ OutsideStore

\* updateObject(objectId, updates)
UpdateObject(id, updates) ==
  /\ sceneState' = [sceneState EXCEPT !.objects = Updated(@, id, updates), !.isDirty = TRUE]
  /\ syncDue' = TRUE
  /\ hatchDue' = TRUE
  /\ op' = [name |-> "updateObject"]
  /\ OutsideStore

\* updateCamera(updates): prev itself when the two JSON strings are equal
UpdateCamera(updates) ==
  LET newCamera == Merge(sceneState.camera, updates)
      same == Stringify(sceneState.camera) = Stringify(newCamera)
  IN  /\ sceneState' = IF same THEN sceneState
                      ELSE [sceneState EXCEPT !.camera = newCamera, !.isDirty = TRUE]
      /\ hatchDue' = (hatchDue \/ ~same)
      /\ op' = [name |-> "updateCamera", updates |-> updates]
      /\ UNCHANGED syncDue
      /\ OutsideStore

\* setHatchLines storing the lines and leaving isDirty as it is
SetHatchLinesOnly(lines) ==
  /\ sceneState' = [sceneState EXCEPT !.hatchLines = lines]
  /\ hatchDue' = hatchDue
  /\ op' = [name |-> "setHatchLines"]
  /\ UNCHANGED syncDue
  /\ OutsideStore

\* setHatchLines(lines)
SetHatchLines(lines) ==
  /\ sceneState' = [sceneState EXCEPT !.hatchLines = lines, !.isDirty = FALSE]
  /\ hatchDue' = (hatchDue \/ sceneState.isDirty)
  /\ op' = [name |-> "setHatchLines"]
  /\ UNCHANGED syncDue
  /\ OutsideStore

StoreNext ==
  \/ \E d \in BOOLEAN : SetDirty(d)
  \/ \E l \in LightData, id \in Ids : AddLight(l, id)
  \/ \E id \in Ids : RemoveLight(id)
  \/ \E id \in Ids, u \in LightUpdates : UpdateLight(id, u)
  \/ \E o \in ObjectData, id \in Ids : AddObject(o, id)
  \/ \E id \in Ids : RemoveObject(id)
  \/ \E id \in Ids, u \in ObjectUpdates : UpdateObject(id, u)
  \/ \E u \in CameraUpdates : UpdateCamera(u)
  \/ \E lines \in HatchLinesGiven : SetHatchLines(lines)

SpecStore == StoreInit /\ [][StoreNext]_vars

-----------------------------------------------------------------------------
(* The viewer's effects on the store *)

\* createObjectMeshes(objects): a mesh at the object's position whose
\* matrixWorld has yet to be computed; the model gives a box the geometry of
\* the quad and any other object that of one triangle
CreateObjectMeshes(objs) ==
  [k \in 1..Len(objs) |->
     Mesh(FALSE, objs[k].position, Zero3,
          IF objs[k].type = "box"
            THEN <<V3(-1, -1, 0), V3(1, -1, 0), V3(1, 1, 0),
                   V3(-1, -1, 0), V3(1, 1, 0), V3(-1, 1, 0)>>
            ELSE <<V3(-1, -1, 0), V3(1, -1, 0), V3(1, 1, 0)>>,
          <<>>)]

\* The ids of the entries of a list
IdsOf(list) == {list[k].id : k \in 1..Len(list)}

\* The entries of list whose id is in S, in order
RECURSIVE Having(_, _)
Having(list, S) ==
  IF list = <<>> THEN <<>>
  ELSE (IF Head(list).id \in S THEN <<Head(list)>> ELSE <<>>) \o Having(Tail(list), S)

\* The effect on objects and lights that rebuilds every mesh from its object
SyncEffectRebuilding ==
  /\ syncDue
  /\ objectMeshesRef' =
       [k \in 1..Len(sceneState.objects) |->
          [id |-> sceneState.objects[k].id,
           mesh |-> CreateObjectMeshes(<<sceneState.objects[k]>>)[1]]]
  /\ sceneState' = [sceneState EXCEPT !.isDirty = TRUE]
  /\ syncDue' = FALSE
  /\ hatchDue' = (hatchDue \/ ~sceneState.isDirty)
  /\ op' = [name |-> "syncEffect"]
  /\ UNCHANGED <<genVars, earlier, screenVars, camera, unitVars>>

\* The effect on objects and lights: the meshes of objects no longer there
\* are dropped, a mesh is created for each object that has none, and
\* setDirty(true)
SyncEffect ==
  /\ syncDue
  /\ LET kept == Having(objectMeshesRef, IdsOf(sceneState.objects))
         missing == Having(sceneState.objects, IdsOf(sceneState.objects) \ IdsOf(kept))
     IN  objectMeshesRef' =
           kept \o [k \in 1..Len(missing) |->
                      [id |-> missing[k].id,
                       mesh |-> CreateObjectMeshes(<<missing[k]>>)[1]]]
  /\ sceneState' = [sceneState EXCEPT !.isDirty = TRUE]
  /\ syncDue' = FALSE
  /\ hatchDue' = (hatchDue \/ ~sceneState.isDirty)
  /\ op' = [name |-> "syncEffect"]
  /\ UNCHANGED <<genVars, earlier, screenVars, camera, unitVars>>

\* The meshes of objectMeshesRef.current
MeshesOf(ref) == [k \in 1..Len(ref) |-> ref[k].mesh]

\* The effect that generates the hatch lines; it comes after the effect on
\* objects and lights.  When dirty: setHatchLines of the lines generated (of
\* [] without objects or lights), then setDirty(false), which has it run
\* once more.
HatchEffect ==
  /\ hatchDue
  /\ ~syncDue
  /\ IF sceneState.isDirty
       THEN /\ sceneState' =
                 [sceneState EXCEPT
                    !.hatchLines =
                       IF Len(sceneState.objects) > 0 /\ Len(sceneState.lights) > 0
                         THEN GenerateHatchLines(MeshesOf(objectMeshesRef), sceneState.lights)
                         ELSE <<>>,
                    !.isDirty = FALSE]
            /\ objectMeshesRef' =
                 IF Len(sceneState.objects) > 0 /\ Len(sceneState.lights) > 0
                   THEN [k \in 1..Len(objectMeshesRef) |->
                           [objectMeshesRef[k] EXCEPT
                              !.mesh = UpdateMatrixWorld(<<objectMeshesRef[k].mesh>>)[1]]]
                   ELSE objectMeshesRef
            /\ hatchDue' = TRUE
       ELSE /\ hatchDue' = FALSE
            /\ UNCHANGED <<sceneState, objectMeshesRef>>
  /\ op' = [name |-> "hatchEffect"]
  /\ UNCHANGED <<genVars, earlier, screenVars, syncDue, camera, unitVars>>

\* No effect of the viewer has yet to run
Settled == ~syncDue /\ ~hatchDue

\* An operation of the controls panel on a light or an object
PanelOp ==
  \/ \E l \in LightData, id \in Ids : AddLight(l, id)
  \/ \E id \in Ids : RemoveLight(id)
  \/ \E id \in Ids, u \in LightUpdates : UpdateLight(id, u)
  \/ \E o \in ObjectData, id \in Ids : AddObject(o, id)
  \/ \E id \in Ids : RemoveObject(id)
  \/ \E id \in Ids, u \in ObjectUpdates : UpdateObject(id, u)

\* The viewer's effects run after each commit, before the next event of the
\* panel is handled
ViewerNext ==
  \/ Settled /\ PanelOp
  \/ SyncEffect
  \/ HatchEffect

SpecViewer == StoreInit /\ [][ViewerNext]_vars

-----------------------------------------------------------------------------
(* Properties of generateHatchLines *)

Done == pc = "done"

\* The world-space triangle k of mesh m
WorldTriangle(m, k) ==
  LET t == Triangles(objectMeshes[m])[k]
      mw == objectMeshes[m].matrixWorld
  IN  <<ApplyMatrix4(t[1], mw), ApplyMatrix4(t[2], mw), ApplyMatrix4(t[3], mw)>>

\* dot(n, d) of the triangle a path came from, n its unit normal and d the
\* direction of the path's light, as a sign and a square
OriginDot(o) ==
  LET t == WorldTriangle(o.mesh, o.tri)
  IN  NormalDot(t[1], t[2], t[3], LightDirection(lights[o.light]))

\* The paths so far, in the order of origins
PathsSoFar == allHatchPaths \o generatedPaths

\* The loop over the master lines of the current light has ended
LoopOver == lineIdx = setup.numHatchLines + 1

\* The master lines processed so far of light k
LinesOf(k) == {j \in 1..Len(masterLines) : masterLines[j].light = k}

\* C1: a call with an empty mesh list or an empty light list returns the
\* empty list and raises no error.
EmptyInputEmptyResult ==
  (Done /\ (Len(objectMeshes) = 0 \/ Len(lights) = 0)) => (result = <<>> /\ ~error)

EmptyInputReturned ==
  /\ Done
  /\ (Len(objectMeshes) = 0 /\ Len(lights) > 0) \/ (Len(objectMeshes) > 0 /\ Len(lights) = 0)
  /\ result = <<>>

\* C2: under a directional light no path comes from a triangle with
\* dot(n, d) >= -0.01: every path's triangle has dot(n, d) < -0.01.
DirectionalBackFaceCulled ==
  Done =>
    \A j \in 1..Len(origins) :
      lights[origins[j].light].type = "directional" =>
        LET r == OriginDot(origins[j])
        IN  r[1] < 0 /\ RLt(<<1, 10000>>, r[2])

\* A directional light has cut, on some master line, through a mesh with a
\* triangle of -0.01 <= dot(n, d) < -0.001 and one facing away, and is done
BackFacingTrianglesCut ==
  /\ Done
  /\ \E k \in 1..Len(lights) :
       /\ lights[k].type = "directional"
       /\ LinesOf(k) # {}
       /\ \E m \in 1..Len(objectMeshes) :
            /\ \E t \in 1..Len(Triangles(objectMeshes[m])) :
                 LET r == NormalDot(WorldTriangle(m, t)[1], WorldTriangle(m, t)[2],
                                    WorldTriangle(m, t)[3], LightDirection(lights[k]))
                 IN  r[1] < 0 /\ RLe(r[2], <<1, 10000>>) /\ RLt(<<1, 1000000>>, r[2])
            /\ \E t \in 1..Len(Triangles(objectMeshes[m])) :
                 NormalDot(WorldTriangle(m, t)[1], WorldTriangle(m, t)[2],
                           WorldTriangle(m, t)[3], LightDirection(lights[k]))[1] > 0
            /\ \A j \in 1..Len(origins) :
                 ~(origins[j].light = k /\ origins[j].mesh = m)

\* The alignment the thresholds are compared with, for the triangle a path
\* came from: -dot(n, d), times for a spotlight the squared cosine of the
\* angle from the light's axis to the triangle's centroid
OriginAlignment(o) ==
  LET t == WorldTriangle(o.mesh, o.tri)
      light == lights[o.light]
      raw == OriginDot(o)
      att == CosAngleTo(VSub(Midpoint(t[1], t[2], t[3]), light.position),
                        LightDirection(light))
  IN  IF light.type = "spotlight"
        THEN <<-raw[1], RMul(raw[2], RSq(att[2]))>>
        ELSE <<-raw[1], raw[2]>>

\* C3: whatever the light, a path on master line i comes from a triangle
\* whose alignment is at least 0.5 when i is even and at least 0.1 when i
\* is odd.
AlignmentThresholdsAllLights ==
  Done =>
    \A j \in 1..Len(origins) :
      ~RootLess(OriginAlignment(origins[j]),
                IF origins[j].line % 2 = 0 THEN <<1, 2>> ELSE <<1, 10>>)

\* C4: a directional light of intensity I over a scan range R draws
\* n = max(1, floor(I * R * 20)) master lines, line i (1..n) at scan
\* coordinate min_scan + i * R / (n + 1), and its segments lie there.
DirectionalLineCountAndPlacement ==
  (pc = "dirLine" /\ LoopOver) =>
    LET I == CurrentLight.intensity
        R == setup.scanRange
        f == (I[1] * R[1] * 20) \div (I[2] * R[2])
        n == IF f > 1 THEN f ELSE 1
        at(i) == RAdd(setup.minScan, Rat(i * R[1], R[2] * (n + 1)))
    IN  /\ setup.numHatchLines = n
        /\ {masterLines[j].i : j \in LinesOf(lightIdx)} = 1..n
        /\ \A j \in LinesOf(lightIdx) : masterLines[j].scanOffset = at(masterLines[j].i)
        /\ \A j \in 1..Len(origins) :
             origins[j].light = lightIdx =>
               /\ VDot(PathsSoFar[j][1].start, setup.scanDirection) = at(origins[j].line)
               /\ VDot(PathsSoFar[j][1].end, setup.scanDirection) = at(origins[j].line)

\* A directional light with more than two master lines has drawn them all
\* and a segment on one past the first
DirectionalLinesDrawn ==
  /\ pc = "dirLine"
  /\ LoopOver
  /\ setup.numHatchLines > 2
  /\ \E j \in 1..Len(origins) : origins[j].light = lightIdx /\ origins[j].line > 1

\* C5: a spotlight of intensity I draws n = max(5, floor(I * 20)) master
\* lines whatever the meshes and its cone angle.
SpotlightLineCount ==
  (pc = "spotLine" /\ LoopOver) =>
    LET I == CurrentLight.intensity
        f == (I[1] * 20) \div I[2]
        n == IF f > 5 THEN f ELSE 5
    IN  /\ setup.numHatchLines = n
        /\ {masterLines[j].i : j \in LinesOf(lightIdx)} = 1..n

\* Two spotlights of different intensity and cone angle have drawn their
\* lines over a mesh, one the floor of five and one more
SpotlightLinesDrawn ==
  /\ Done
  /\ Len(objectMeshes) > 0
  /\ \E k1, k2 \in 1..Len(lights) :
       /\ lights[k1].type = "spotlight" /\ lights[k2].type = "spotlight"
       /\ lights[k1].spotAngle # lights[k2].spotAngle
       /\ Cardinality(LinesOf(k1)) = 5
       /\ Cardinality(LinesOf(k2)) > 5

\* p lies on the bounded edge a..b
OnEdge(p, a, b) ==
  LET ab == VSub(b, a)
      ap == VSub(p, a)
      along == VDot(ap, ab)
  IN  /\ VLengthSq(VCross(ap, ab))[1] = 0
      /\ RLe(RInt(0), along)
      /\ RLe(along, VLengthSq(ab))

OnTriangleEdge(p, t) ==
  OnEdge(p, t[1], t[2]) \/ OnEdge(p, t[2], t[3]) \/ OnEdge(p, t[3], t[1])

\* C6: both endpoints of every segment lie on an edge of the triangle the
\* segment came from.
EndpointsOnTriangleEdges ==
  Done =>
    \A j \in 1..Len(origins) :
      LET t == WorldTriangle(origins[j].mesh, origins[j].tri)
      IN  /\ OnTriangleEdge(PathsSoFar[j][1].start, t)
          /\ OnTriangleEdge(PathsSoFar[j][1].end, t)

\* A directional light and a spotlight have each cut a segment whose ends
\* are not both vertices of its triangle
SegmentsCutAcrossTriangles ==
  /\ Done
  /\ \A type \in {"directional", "spotlight"} :
       \E j \in 1..Len(origins) :
         /\ lights[origins[j].light].type = type
         /\ LET t == WorldTriangle(origins[j].mesh, origins[j].tri)
            IN  PathsSoFar[j][1].start \notin {t[1], t[2], t[3]}

\* C7: every hatch path holds exactly one segment.
OneSegmentPerPath ==
  Done => \A j \in 1..Len(result) : Len(result[j]) = 1

\* The result holds paths of a directional light and of a spotlight, two of
\* them from one master line
SeveralPathsReturned ==
  /\ Done
  /\ Len(result) = Len(origins)
  /\ \A type \in {"directional", "spotlight"} :
       \E j \in 1..Len(origins) : lights[origins[j].light].type = type
  /\ \E j1, j2 \in 1..Len(origins) :
       /\ j1 # j2
       /\ origins[j1].light = origins[j2].light
       /\ origins[j1].line = origins[j2].line

Supported(light) == light.type \in {"directional", "spotlight"}

\* C8: a light of an unsupported type adds no segment and raises no error,
\* and the result is the one the other lights give without it.
UnsupportedLightsIgnored ==
  Done =>
    /\ ~error
    /\ \A j \in 1..Len(origins) : Supported(lights[origins[j].light])
    /\ \A j \in 1..Len(masterLines) : Supported(lights[masterLines[j].light])
    /\ result = GenerateHatchLines(objectMeshes, SelectSeq(lights, Supported))

\* A light of an unsupported type came first and a later light drew paths
UnsupportedLightPassed ==
  /\ Done
  /\ Len(lights) > 1
  /\ ~Supported(lights[1])
  /\ result # <<>>

\* The light has no stable basis: its direction is zero, or no vertex is
\* hatched at all, or (directional) the vertices spread over less than
\* 0.001 along its scan direction
NoStableBasis(light) ==
  LET d == LightDirection(light)
      vs == WorldVertices(objectMeshes)
  IN  \/ VLengthSq(d)[1] = 0
      \/ vs = {}
      \/ /\ light.type = "directional"
         /\ LET s == ScanDirection(HatchLineDirection(d, light.hatchAngle).h, d)
                vals == {VDot(v, s) : v \in vs}
            IN  RLt(RSub(RatMaxOf(vals), RatMinOf(vals)), <<1, 1000>>)

StableBasis(light) == ~NoStableBasis(light)

NotHelper(mesh) == ~mesh.isHelper

\* C10: a helper mesh gives no segment and has no part in the bounding box,
\* the scan range or the master lines: all are as without the helpers.
HelpersIgnored ==
  /\ (pc = "dirLine" /\ lineIdx = 1) =>
       setup = DirectionalSetup(CurrentLight, SelectSeq(objectMeshes, NotHelper)).setup
  /\ Done =>
       /\ \A j \in 1..Len(origins) : NotHelper(objectMeshes[origins[j].mesh])
       /\ result = GenerateHatchLines(SelectSeq(objectMeshes, NotHelper), lights)

\* Paths were drawn over a scene with a helper mesh larger than the rest
HelperInHatchedScene ==
  /\ Done
  /\ \E m \in 1..Len(objectMeshes) : objectMeshes[m].isHelper
  /\ \E j \in 1..Len(origins) : lights[origins[j].light].type = "directional"
  /\ \E j \in 1..Len(origins) : lights[origins[j].light].type = "spotlight"

\* Squared length of cross(vB - vA, vC - vA) of a world triangle
EdgeCrossSq(t) == VLengthSq(VCross(VSub(t[2], t[1]), VSub(t[3], t[1])))

\* C11: no path comes from a triangle whose edge cross product has squared
\* length below 0.0001.
DegenerateTrianglesSkipped ==
  Done =>
    \A j \in 1..Len(origins) :
      ~RLt(EdgeCrossSq(WorldTriangle(origins[j].mesh, origins[j].tri)), <<1, 10000>>)

\* The squared distance between the ends of a segment is below 0.0001
ShorterThanHundredth(seg) == DistSqBelow(seg.start, seg.end, 100)

\* The squared distance between the ends of a segment is above 0.00001
LongerThanDropLength(seg) == DistSqAbove(seg.start, seg.end, 100000)

\* C12 as stated: no returned segment has squared length below 0.0001.
NoSegmentBelowTenThousandth ==
  Done =>
    \A j \in 1..Len(result) : ~ShorterThanHundredth(result[j][1])

\* C12: every returned segment has squared length above 0.00001; a shorter
\* one is dropped.
NoSegmentUpToHundredThousandth ==
  Done =>
    \A j \in 1..Len(result) : LongerThanDropLength(result[j][1])

\* A segment of squared length between 0.00001 and 0.0001 is returned, and
\* a lit triangle cut on the same master line gave none
ShortSegmentReturned ==
  /\ Done
  /\ \E j \in 1..Len(result) :
       /\ LongerThanDropLength(result[j][1])
       /\ ShorterThanHundredth(result[j][1])
       /\ \E k \in 1..Len(Triangles(objectMeshes[origins[j].mesh])) :
            /\ OriginDot([origins[j] EXCEPT !.tri = k])[1] < 0
            /\ \A j2 \in 1..Len(origins) :
                 ~(origins[j2].light = origins[j].light /\ origins[j2].tri = k)

\* The loop over the master lines of a directional light or a spotlight has
\* just ended
LinesOver == pc \in {"dirLine", "spotLine"} /\ LoopOver

\* The cutting plane of master line i of the current light
PairCuttingPlane(i) ==
  IF pc = "dirLine" THEN HatchCuttingPlane(setup, i)
  ELSE SpotlightCuttingPlane(setup, CurrentLight.position, i)

\* The de-duplicated intersection points of world triangle t with the
\* cutting plane of master line i of the current light
PairPoints(i, t) ==
  IF pc = "dirLine"
    THEN EdgeIntersections(PairCuttingPlane(i).plane, t[1], t[2], t[3])
    ELSE SpotlightEdgeIntersections(PairCuttingPlane(i).plane, t[1], t[2], t[3],
                                    CurrentLight.position, setup.lightDirection,
                                    CosDegRoot(SpotAngleDegrees(CurrentLight)))

\* Triangle k of mesh m is lit on master line i of the current light
PairLit(i, m, k) ==
  LET o == [light |-> lightIdx, line |-> i, mesh |-> m, tri |-> k]
      t == WorldTriangle(m, k)
      raw == OriginDot(o)
      dotNL == <<-raw[1], raw[2]>>
  IN  IF pc = "dirLine"
        THEN /\ ~RootLess(dotNL, BackFaceTolerance)
             /\ ~RootLess(dotNL, DirectionalRequiredAlignment(i))
        ELSE /\ InCone(Midpoint(t[1], t[2], t[3]), CurrentLight.position,
                       setup.lightDirection, CosDegRoot(SpotAngleDegrees(CurrentLight)))
             /\ ~RootLess(dotNL, BackFaceTolerance)
             /\ ~RootLess(OriginAlignment(o), SpotlightRequiredAlignment(i))

\* The paths that came from triangle k of mesh m on master line i of the
\* current light
PairPaths(i, m, k) ==
  {j \in 1..Len(origins) :
     origins[j] = [light |-> lightIdx, line |-> i, mesh |-> m, tri |-> k]}

\* The rule of the intersection points for one pair: two points give the
\* segment between them, more give the segment from a first to a last point
\* along h, fewer give none.  With lengthTested the segment is given only
\* when its squared length exceeds 0.00001.
PairRule(i, m, k, lengthTested) ==
  LET pts == PairPoints(i, WorldTriangle(m, k))
      js == PairPaths(i, m, k)
      h == setup.hatchLineDirection
      range == {pts[x] : x \in 1..Len(pts)}
      firsts == {p \in range : \A q \in range : RLe(VDot(p, h), VDot(q, h))}
      lasts == {p \in range : \A q \in range : RLe(VDot(q, h), VDot(p, h))}
      long(p, q) == ~lengthTested \/ DistSqAbove(p, q, 100000)
  IN  /\ Cardinality(js) <= 1
      /\ (PairLit(i, m, k) /\ ~PairCuttingPlane(i).none) =>
           IF Len(pts) < 2 THEN js = {}
           ELSE IF Len(pts) = 2
             THEN IF long(pts[1], pts[2])
                    THEN \E j \in js : PathsSoFar[j] = <<Segment(pts[1], pts[2])>>
                    ELSE js = {}
           ELSE IF js = {}
             THEN \E f \in firsts, l \in lasts : ~long(f, l)
             ELSE \A j \in js :
                    /\ PathsSoFar[j][1].start \in firsts
                    /\ PathsSoFar[j][1].end \in lasts
                    /\ long(PathsSoFar[j][1].start, PathsSoFar[j][1].end)

PairRuleEverywhere(lengthTested) ==
  LinesOver =>
    \A i \in 1..setup.numHatchLines :
      \A m \in {x \in 1..Len(objectMeshes) : ~objectMeshes[x].isHelper} :
        \A k \in 1..Len(Triangles(objectMeshes[m])) :
          PairRule(i, m, k, lengthTested)

\* C13 as stated: for every lit triangle and cutting plane, two points give
\* one segment between them, more than two give one segment from the first
\* to the last along h, fewer give none; never more than one segment.
SegmentPerPairWhateverLength == PairRuleEverywhere(FALSE)

\* C13: the same, where the one segment is given only when its squared
\* length exceeds 0.00001 and none is given otherwise.
SegmentPerPairOfLength == PairRuleEverywhere(TRUE)

\* A spotlight's loop has ended in which a lit triangle met its cutting
\* plane in more than two points and gave a segment
ThreePointsSegment ==
  /\ pc = "spotLine"
  /\ LoopOver
  /\ \E j \in 1..Len(origins) :
       /\ origins[j].light = lightIdx
       /\ Len(PairPoints(origins[j].line,
                         WorldTriangle(origins[j].mesh, origins[j].tri))) > 2

\* The path came from a spotlight
FromSpotlight(j) == lights[origins[j].light].type = "spotlight"

\* The angle between p - position and the axis of the light is at most the
\* half-angle of its cone: the cosine is at least that of the half-angle
WithinCone(p, light) ==
  LET c == CosAngleTo(VSub(p, light.position), LightDirection(light))
      half == IF light.spotAngle = 0 THEN <<1, 4>> ELSE <<1, 2>>
  IN  c[1] > 0 /\ RLe(half, c[2])

\* How far p lies from the light's position along its direction
AlongAxis(p, light) == VDot(VSub(p, light.position), LightDirection(light))

\* C14 as stated: both ends of every spotlight segment are within the cone
\* and at least the near distance 1 along d from the light's position.
SpotlightSegmentsInConeBeyondNear ==
  Done =>
    \A j \in 1..Len(origins) :
      FromSpotlight(j) =>
        \A p \in {result[j][1].start, result[j][1].end} :
          /\ WithinCone(p, lights[origins[j].light])
          /\ RLe(RInt(1), AlongAxis(p, lights[origins[j].light]))

\* C14: both ends of every spotlight segment are within the cone and at
\* least the near distance less 0.001, 0.999, along d from the light's
\* position.
SpotlightSegmentsInConeNearTolerance ==
  Done =>
    \A j \in 1..Len(origins) :
      FromSpotlight(j) =>
        \A p \in {result[j][1].start, result[j][1].end} :
          /\ WithinCone(p, lights[origins[j].light])
          /\ RLe(<<999, 1000>>, AlongAxis(p, lights[origins[j].light]))

\* A spotlight segment is returned with an end between 0.999 and 1 along d,
\* and a triangle of the same mesh crossed by master lines gave no segment
\* on some of them
SpotlightSegmentNearerThanNear ==
  /\ Done
  /\ Len(result) = Len(origins)
  /\ \E j \in 1..Len(origins) :
       /\ FromSpotlight(j)
       /\ RLt(AlongAxis(result[j][1].start, lights[origins[j].light]), RInt(1))
       /\ Cardinality(LinesOf(origins[j].light)) >
            Cardinality({origins[x].line : x \in {y \in 1..Len(origins) :
                                                    origins[y].light = origins[j].light}})


-----------------------------------------------------------------------------
(* C15: the same inputs give the same segments *)

\* How often path p occurs in the list of paths ps
Occurrences(ps, p) == Cardinality({j \in 1..Len(ps) : ps[j] = p})

\* Two lists of paths hold the same paths, each as often, in whatever order
SameMultiset(ps, qs) ==
  /\ Len(ps) = Len(qs)
  /\ \A j \in 1..Len(ps) : Occurrences(ps, ps[j]) = Occurrences(qs, ps[j])

\* C15: generateHatchLines is deterministic: a call on the meshes and lights
\* of an earlier call returns the same multiset of segments as that call did.
SameInputsSameSegments ==
  (Done /\ ~error) => \A c \in 1..Len(earlier) : SameMultiset(earlier[c], result)

\* A second call has returned segments, on a scene whose world matrices the
\* first call had to bring up to date
SecondCallReturnedSegments ==
  /\ Done
  /\ Len(earlier) = 1
  /\ Len(result) > 1
  /\ \E m \in 1..Len(objectMeshes) : objectMeshes[m] = UpdateMatrixWorld(<<MeshMoved>>)[1]

-----------------------------------------------------------------------------
(* C16: the inputs after a call *)

\* C16: generateHatchLines leaves its inputs unchanged: no step of a call
\* changes a mesh, its world transform included, or a light.
InputsLeftUnchanged ==
  [][objectMeshes' = objectMeshes /\ lights' = lights]_vars

-----------------------------------------------------------------------------
(* C17: more intensity, no fewer lines *)

\* The intensities the light of the call is compared with
Intensities == {<<1, 100>>, <<1, 25>>, <<1, 10>>, <<1, 2>>, <<1, 1>>, <<3, 2>>}

\* The meshes of the call that are not helpers
Hatched == {m \in 1..Len(objectMeshes) : ~objectMeshes[m].isHelper}

\* The only hatched mesh is a flat quad of two triangles and light k is a
\* directional light it directly faces: dot(n, d) = -1 on both triangles
QuadFacing(k) ==
  /\ lights[k].type = "directional"
  /\ Cardinality(Hatched) = 1
  /\ \A m \in Hatched :
        /\ Len(Triangles(objectMeshes[m])) = 2
        /\ \A t \in 1..2 :
              LET w == WorldTriangle(m, t)
              IN  NormalDot(w[1], w[2], w[3], LightDirection(lights[k])) = <<-1, <<1, 1>>>>

\* The master lines of a directional light that produce a segment
ProducingLines(light, meshes) ==
  LET r == DirectionalSetup(light, meshes)
  IN  IF r.abort THEN {}
      ELSE {i \in 1..r.setup.numHatchLines :
              LET cp == HatchCuttingPlane(r.setup, i)
              IN  /\ ~cp.none
                  /\ DirectionalLineSegments(meshes, r.setup.lightDirection, i, cp.plane,
                                             r.setup.hatchLineDirection) # <<>>}

\* The master lines of light k that produced a segment in this call
ProducedHere(k) == {origins[j].line : j \in {x \in 1..Len(origins) : origins[x].light = k}}

\* The paths light k added in this call
PathsHere(k) == Cardinality({j \in 1..Len(origins) : origins[j].light = k})

\* Light k with another intensity, everything else as it is
WithIntensity(k, I) == [lights[k] EXCEPT !.intensity = I]

\* C17: for a flat quad directly facing a directional light, with everything
\* but the intensity fixed, a higher intensity never gives fewer master lines
\* that produce segments, nor fewer returned paths.
MoreIntensityNoFewerLines ==
  (Done /\ ~error) =>
    \A k \in 1..Len(lights) :
      QuadFacing(k) =>
        \A I \in Intensities :
          LET lines == Cardinality(ProducingLines(WithIntensity(k, I), objectMeshes))
              paths == Len(LightPaths(WithIntensity(k, I), objectMeshes))
              here == Cardinality(ProducedHere(k))
          IN  /\ RLt(I, lights[k].intensity) => (lines <= here /\ paths <= PathsHere(k))
              /\ RLt(lights[k].intensity, I) => (lines >= here /\ paths >= PathsHere(k))
              /\ I = lights[k].intensity => (lines = here /\ paths = PathsHere(k))

\* The quad under the facing light of intensity 1/2 has 20 producing lines,
\* and 40 at intensity 1
QuadLinesGrowWithIntensity ==
  /\ Done
  /\ \E k \in 1..Len(lights) :
        /\ QuadFacing(k)
        /\ lights[k].intensity = <<1, 2>>
        /\ Cardinality(ProducedHere(k)) = 20
        /\ Cardinality(ProducingLines(WithIntensity(k, <<1, 1>>), objectMeshes)) = 40

-----------------------------------------------------------------------------
(* C18, C19: the quad under the light above it *)

\* The directional light at (0,0,5) aimed at the origin, hatch angle 0,
\* intensity 0.5
ScenarioLight == Light("directional", V3(0, 0, 5), Zero3, <<1, 2>>, 0, 0)

\* Light k is the light of the scenario and the only hatched mesh is the quad
\* (-1,-1,0), (1,-1,0), (1,1,0), (-1,1,0) as two triangles
InScenario(k) ==
  /\ lights[k] = ScenarioLight
  /\ Cardinality(Hatched) = 1
  /\ \A m \in Hatched :
        /\ Len(Triangles(objectMeshes[m])) = 2
        /\ WorldTriangle(m, 1) = <<V3(-1, -1, 0), V3(1, -1, 0), V3(1, 1, 0)>>
        /\ WorldTriangle(m, 2) = <<V3(-1, -1, 0), V3(1, 1, 0), V3(-1, 1, 0)>>

\* The point (x, y, 0) for an integer x and a fraction y
AtXY(x, y) == <<x * y[2], y[1], 0, y[2]>>

\* The point (y, y, 0) on the quad's diagonal
OnDiagonal(y) == <<y[1], y[1], 0, y[2]>>

\* The ends of the segment of path j, whichever is the start
Ends(j) == {PathsSoFar[j][1].start, PathsSoFar[j][1].end}

\* The paths of master line i of light k
PathsOfLine(k, i) ==
  {j \in 1..Len(origins) : origins[j].light = k /\ origins[j].line = i}

\* The scan offset of master line i of light k
OffsetOfLine(k, i) ==
  LET j == CHOOSE x \in LinesOf(k) : masterLines[x].i = i
  IN  masterLines[j].scanOffset

\* Light k has drawn exactly 20 master lines
TwentyLines(k) == {masterLines[j].i : j \in LinesOf(k)} = 1..20

\* C18 as stated: in the scenario there are exactly 20 master lines and each
\* produces exactly one segment, which spans the quad's full width, from
\* x = -1 to x = 1, at the line's scan offset.
ScenarioOneSegmentPerLine ==
  Done =>
    \A k \in 1..Len(lights) :
      InScenario(k) =>
        /\ TwentyLines(k)
        /\ \A i \in 1..20 :
              /\ Cardinality(PathsOfLine(k, i)) = 1
              /\ \A j \in PathsOfLine(k, i) :
                    Ends(j) = {AtXY(-1, OffsetOfLine(k, i)), AtXY(1, OffsetOfLine(k, i))}

\* C18: in the scenario there are exactly 20 master lines and each produces
\* exactly two segments at its scan offset y, one per triangle of the quad:
\* from x = 1 to the diagonal in the first, from the diagonal to x = -1 in
\* the second, which together span the quad's width.
ScenarioTwoSegmentsPerLine ==
  Done =>
    \A k \in 1..Len(lights) :
      InScenario(k) =>
        /\ TwentyLines(k)
        /\ \A i \in 1..20 :
              LET y == OffsetOfLine(k, i)
              IN  /\ y = Rat(2 * i - 21, 21)
                  /\ Cardinality(PathsOfLine(k, i)) = 2
                  /\ \A j \in PathsOfLine(k, i) :
                        /\ origins[j].tri = 1 => Ends(j) = {AtXY(1, y), OnDiagonal(y)}
                        /\ origins[j].tri = 2 => Ends(j) = {OnDiagonal(y), AtXY(-1, y)}
                  /\ {origins[j].tri : j \in PathsOfLine(k, i)} = {1, 2}

\* The scenario has been run to its end
ScenarioRun ==
  /\ Done
  /\ \E k \in 1..Len(lights) : InScenario(k) /\ PathsHere(k) = 40

\* Segment seg runs along axis a (1 for X, 2 for Y): its ends differ in that
\* coordinate and in no other
Along(seg, a) ==
  \A c \in 1..3 : (Coord(seg.start, c) # Coord(seg.end, c)) <=> (c = a)

\* C19 as stated: in the scenario every emitted segment is parallel to the
\* Y axis.
ScenarioSegmentsAlongY ==
  Done =>
    \A j \in 1..Len(origins) : InScenario(origins[j].light) => Along(PathsSoFar[j][1], 2)

\* C19: in the scenario every emitted segment is parallel to the X axis, the
\* hatch line direction h = (1,0,0); the master lines are stepped along Y.
ScenarioSegmentsAlongX ==
  Done =>
    \A j \in 1..Len(origins) :
      InScenario(origins[j].light) =>
        /\ Along(PathsSoFar[j][1], 1)
        /\ HatchLineDirection(LightDirection(lights[origins[j].light]),
                              lights[origins[j].light].hatchAngle).h = V3(1, 0, 0)

\* The scenario has emitted segments on its first and on its last master line
ScenarioSegmentsEmitted ==
  /\ Done
  /\ \E k \in 1..Len(lights) :
        /\ InScenario(k)
        /\ PathsOfLine(k, 1) # {}
        /\ PathsOfLine(k, 20) # {}

-----------------------------------------------------------------------------
(* C20: projectToScreen *)

\* The normalized device coordinates of the point handed in
Ndc == ApplyMatrix4Divide(vector3, projectionMatrix)

\* C20: projectToScreen returns (ndc.x * width / 2, ndc.y * height / 2): twice
\* the result is the NDC point scaled by the width and the height, with no
\* translation and no flip of y, so NDC (0,0) gives (0,0) whatever the width
\* and the height.
ScreenIsScaledNdc ==
  screen.returned =>
    /\ RMul(RInt(2), screen.x) = RMul(Coord(Ndc, 1), RInt(width))
    /\ RMul(RInt(2), screen.y) = RMul(Coord(Ndc, 2), RInt(height))
    /\ Sign(screen.x[1]) = Sign(Ndc[1])
    /\ Sign(screen.y[1]) = Sign(Ndc[2])
    /\ (Ndc[1] = 0 /\ Ndc[2] = 0) => (screen.x = RInt(0) /\ screen.y = RInt(0))

\* A point off the origin that projects to NDC (0,0) has been mapped for a
\* width of 800 and a height of 600
NdcCentreProjected ==
  /\ screen.returned
  /\ Ndc[1] = 0
  /\ Ndc[2] = 0
  /\ vector3[1] # 0
  /\ width = 800
  /\ height = 600

-----------------------------------------------------------------------------
(* C21: exportToSVG *)

\* The screen point of p as exportToSVG writes it
Written(p) ==
  LET s2 == ProjectToScreen(p, projectionMatrix, width, height)
  IN  <<ToFixed2(s2.x), ToFixed2(s2.y)>>

\* Polyline l lists path p: k + 1 points for k segments, the start of the
\* first segment, then the end of each segment in order
Lists(l, p) ==
  /\ Len(l) = Len(p) + 1
  /\ p # <<>> => l[1] = Written(p[1].start)
  /\ \A k \in 1..Len(p) : l[k + 1] = Written(p[k].end)

NonEmptyAt == {j \in 1..Len(hatchPaths) : hatchPaths[j] # <<>>}

-----------------------------------------------------------------------------
(* C22: what makes the scene dirty *)

\* The fields of two camera states are equal: the same keys with the same
\* values, whatever the order they were written in
SameCamera(a, b) ==
  /\ {a.position[k] : k \in 1..Len(a.position)} = {b.position[k] : k \in 1..Len(b.position)}
  /\ a.far = b.far

\* The last step was the store operation of that name
Stepped(name) == op' # op /\ op'.name = name

-----------------------------------------------------------------------------
(* C23: isPointOnSegment *)

\* p is collinear with a, b: |cross(p - a, b - a)|^2 <= epsilon^2 |ab|^2
Collinear(p, a, b, epsilon) ==
  RLe(VLengthSq(VCross(VSub(p, a), VSub(b, a))),
      RMul(RSq(epsilon), VLengthSq(VSub(b, a))))

\* dot(p - a, b - a) lies in [-epsilon, |ab|^2 + epsilon]
Within(p, a, b, epsilon) ==
  /\ RLe(RNeg(epsilon), VDot(VSub(p, a), VSub(b, a)))
  /\ RLe(VDot(VSub(p, a), VSub(b, a)), RAdd(VLengthSq(VSub(b, a)), epsilon))

\* The segment a, b is shorter than epsilon
Short(a, b, epsilon) == RLt(VLengthSq(VSub(b, a)), RSq(epsilon))

\* C23 as stated: for every p, a, b and epsilon, isPointOnSegment returns true
\* exactly when p is collinear with a, b within epsilon and the dot product of
\* p - a with b - a lies in [-epsilon, |ab|^2 + epsilon].
OnSegmentIffCollinearWithin ==
  onSegment.returned =>
    (onSegment.value <=>
       /\ Collinear(segment.p, segment.a, segment.b, segment.epsilon)
       /\ Within(segment.p, segment.a, segment.b, segment.epsilon))

\* C23 amended: that equivalence holds for a segment with |ab|^2 >= epsilon^2;
\* for a shorter segment the value is true exactly when |p - a|^2 < epsilon^2.
OnSegmentIffCollinearWithinOrNearShort ==
  onSegment.returned =>
    (onSegment.value <=>
       IF Short(segment.a, segment.b, segment.epsilon)
       THEN RLt(VLengthSq(VSub(segment.p, segment.a)), RSq(segment.epsilon))
       ELSE /\ Collinear(segment.p, segment.a, segment.b, segment.epsilon)
            /\ Within(segment.p, segment.a, segment.b, segment.epsilon))

\* A point off the line of a longer segment, accepted within the tolerance
OffLineAccepted ==
  /\ onSegment.returned
  /\ onSegment.value
  /\ ~Short(segment.a, segment.b, segment.epsilon)
  /\ segment.p[2] # 0

-----------------------------------------------------------------------------
(* C25: the centroid decides for a spotlight *)

\* The centroid of the world-space triangle k of mesh m
Centroid(m, k) ==
  Midpoint(WorldTriangle(m, k)[1], WorldTriangle(m, k)[2], WorldTriangle(m, k)[3])

\* C25: for a spotlight, a triangle whose centroid lies outside the cone
\* gives no segment on any master line, also when a part of the triangle is
\* inside the cone: every spotlight path comes from a triangle whose
\* centroid is within the cone.
CentroidOutsideConeNoSegments ==
  Done =>
    \A j \in 1..Len(origins) :
      FromSpotlight(j) =>
        WithinCone(Centroid(origins[j].mesh, origins[j].tri), lights[origins[j].light])

\* A spotlight has gone over its master lines on a triangle that faces it
\* and has a vertex within the cone and its centroid outside
TriangleAcrossConeProcessed ==
  /\ Done
  /\ ~error
  /\ \E k \in 1..Len(lights), m \in 1..Len(objectMeshes) :
       /\ lights[k].type = "spotlight"
       /\ LinesOf(k) # {}
       /\ ~objectMeshes[m].isHelper
       /\ \E t \in 1..Len(Triangles(objectMeshes[m])) :
            /\ ~WithinCone(Centroid(m, t), lights[k])
            /\ WithinCone(WorldTriangle(m, t)[1], lights[k])
            /\ NormalDot(WorldTriangle(m, t)[1], WorldTriangle(m, t)[2],
                         WorldTriangle(m, t)[3], LightDirection(lights[k]))[1] < 0

-----------------------------------------------------------------------------
(* C29: one unit for the cone angle *)

\* C29: the spot angle of the scene state is in degrees for every writer and
\* reader: the default the panel writes on a switch to spotlight is a cone of
\* 30 degrees in the generator, and the viewport light's angle, once created
\* and updated, is the generator's cone.
SpotAngleInDegreesThroughout ==
  /\ (op.name = "changeType" /\ op.defaulted) =>
       SpotAngleRad(sceneLight.spotAngle) = DegToRad(PiNum(RInt(30), 0))
  /\ (op.name = "syncLight" /\ sceneLight.type = "spotlight") =>
       spotLight = SpotAngleRad(sceneLight.spotAngle)

-----------------------------------------------------------------------------
(* C26: updateCamera without a change *)

\* C26: an updateCamera whose updates leave every camera field equal to what
\* it was returns the state as it is: the camera's fields, lights, objects,
\* hatchLines and isDirty keep their values, and a false isDirty stays false.
UnchangedCameraLeavesState ==
  [][\A u \in CameraUpdates :
       (UpdateCamera(u) /\ SameCamera(Merge(sceneState.camera, u), sceneState.camera))
         => /\ SameCamera(sceneState'.camera, sceneState.camera)
            /\ sceneState'.lights = sceneState.lights
            /\ sceneState'.objects = sceneState.objects
            /\ sceneState'.hatchLines = sceneState.hatchLines
            /\ sceneState'.isDirty = sceneState.isDirty]_vars

-----------------------------------------------------------------------------
(* C27: an update touches one entry *)

\* after is before with the updates merged into the entries of that id and
\* every other entry, the number of entries and their order as they were
OnlyThatEntry(before, after, id, updates) ==
  /\ Len(after) = Len(before)
  /\ \A k \in 1..Len(before) :
       after[k] = IF before[k].id = id THEN Merge(before[k], updates) ELSE before[k]
  /\ (\A k \in 1..Len(before) : before[k].id # id) => after = before

\* C27: updateLight and updateObject change only the entry with the id given:
\* the list keeps its length and order and its other entries, the other
\* list, the camera and hatchLines are unchanged, and when no entry has the
\* id the list's contents are unchanged.
UpdateTouchesOneEntry ==
  [][/\ \A id \in Ids, u \in LightUpdates :
          UpdateLight(id, u) =>
            /\ OnlyThatEntry(sceneState.lights, sceneState'.lights, id, u)
            /\ sceneState'.objects = sceneState.objects
            /\ sceneState'.camera = sceneState.camera
            /\ sceneState'.hatchLines = sceneState.hatchLines
     /\ \A id \in Ids, u \in ObjectUpdates :
          UpdateObject(id, u) =>
            /\ OnlyThatEntry(sceneState.objects, sceneState'.objects, id, u)
            /\ sceneState'.lights = sceneState.lights
            /\ sceneState'.camera = sceneState.camera
            /\ sceneState'.hatchLines = sceneState.hatchLines]_vars

\* The second of two objects has just been updated to another position
SecondOfTwoUpdated ==
  /\ op.name = "updateObject"
  /\ Len(sceneState.objects) = 2
  /\ sceneState.objects[1].position = Zero3
  /\ sceneState.objects[2].position = V3(0, 2, 0)

-----------------------------------------------------------------------------
(* C28: setHatchLines *)

\* C28: setHatchLines(lines) stores exactly lines and sets isDirty to false,
\* leaving lights, objects and camera as they are; and a step of the store
\* that takes isDirty from true to false is a setHatchLines or a
\* setDirty(false).
SetHatchLinesStoresAndCleans ==
  [][/\ op'.name = "setHatchLines" =>
          /\ \E lines \in HatchLinesGiven : sceneState'.hatchLines = lines
          /\ ~sceneState'.isDirty
          /\ sceneState'.lights = sceneState.lights
          /\ sceneState'.objects = sceneState.objects
          /\ sceneState'.camera = sceneState.camera
     /\ \A lines \in HatchLinesGiven :
          SetHatchLines(lines) => sceneState'.hatchLines = lines
     /\ (sceneState.isDirty /\ ~sceneState'.isDirty) =>
          \/ \E lines \in HatchLinesGiven : SetHatchLines(lines)
          \/ SetDirty(FALSE)]_vars

\* setHatchLines has just stored a line, and the scene is clean
LinesStoredAndClean ==
  /\ op.name = "setHatchLines"
  /\ sceneState.hatchLines # <<>>
  /\ ~sceneState.isDirty

-----------------------------------------------------------------------------
(* C24: the hatch lines follow the scene *)

\* generateHatchLines applied to the objects and lights of the scene state;
\* the empty list without objects or without lights
LinesOfScene ==
  IF Len(sceneState.objects) = 0 \/ Len(sceneState.lights) = 0 THEN <<>>
  ELSE GenerateHatchLines(CreateObjectMeshes(sceneState.objects), sceneState.lights)

\* C24: after an add, remove or update of a light or an object with the
\* viewer mounted, isDirty becomes false again, and the hatchLines stored
\* then are generateHatchLines of the objects and lights as they are after
\* the change: once the effects have run, the scene is clean and holds the
\* lines of its objects and lights.
HatchLinesFollowScene ==
  Settled => (~sceneState.isDirty /\ sceneState.hatchLines = LinesOfScene)

\* C24, the part that holds: once the effects have run the scene is clean
CleanOnceSettled ==
  Settled => ~sceneState.isDirty

-----------------------------------------------------------------------------
(* C30: the camera does not matter *)

\* C30: the result of generateHatchLines does not depend on the camera
\* handed in: a call with another camera on the meshes and lights of the
\* first call returns the paths the first call returned.
ResultWhateverTheCamera ==
  (Done /\ ~error /\ Len(earlier) >= 1 /\ camera # InitialCamera) => result = earlier[1]

\* A call with another camera than the first call's has returned paths
OtherCameraReturnedPaths ==
  /\ Done
  /\ Len(earlier) >= 1
  /\ camera # InitialCamera
  /\ Len(result) > 1

=============================================================================
